---- MODULE Spec2Model ----
(***************************************************************************)
(* A model of the end-to-end ML workshop repository:                       *)
(*   - the Lambda function of module 6 (lambda_handler / build_response),  *)
(*   - the two CloudFormation networking templates of setup/,              *)
(*   - the SageMaker pipeline of module 8.                                 *)
(* The three parts share no state; each has its own specification          *)
(* (Spec, NetSpec, PipeSpec) over the same variables.                      *)
(***************************************************************************)
EXTENDS Integers, Sequences, FiniteSets, TLC

VARIABLES
    event,          \* the event the Lambda function was last invoked with
    lpc,            \* "idle" | "handling" | "done": position of the function
    result,         \* outcome of lambda_handler for `event`
    invocations,    \* the runtime.invoke_endpoint calls made for `event`
    endpoint_answer, \* what the endpoint answered to the call made for `event`
    net_template,   \* the networking template the stack is created from, or "none"
    net_stack_name, \* AWS::StackName of the stack
    net_azs,        \* Fn::GetAZs of the region the stack is created in
    net_status,     \* logical id -> "none" | "in_progress" | "complete"
    net_stack_status, \* "none" | "CREATE_IN_PROGRESS" | "CREATE_COMPLETE"
    net_exports,    \* the stack's exported outputs
    nb_pc,          \* module 8 notebook: the cell reached ("new", "restored", "defined",
                    \* "upserted", "started", "waited", "arn_read", "described",
                    \* "approved", "deployed", "predicted", "done") or "error"
    bucket_name,    \* sagemaker_session.default_bucket() of the notebook session
    pipeline,       \* the Pipeline object the notebook built
    pipe_def,       \* the pipeline definition the service holds after upsert
    passed_params,  \* the parameters given to pipeline.start
    exec_params,    \* the parameter values of the execution
    exec_status,    \* "none" | "Executing" | "Succeeded" | "Failed"
    step_status,    \* step name -> "NotStarted" | "Executing" | "Succeeded" | "Failed"
    step_attempts,  \* step name -> how many times the service has started the step
    step_metadata,  \* step name -> ARN of the model package the step registered, or ""
    registry,       \* the model registry: the model packages, each with its status
    model_package_arn, \* the notebook's model_package_arn
    endpoint_name,  \* the notebook's endpoint_name
    predict_calls,  \* the endpoints predictor.predict has invoked, in order
    endpoints,      \* the endpoints in service in the account
    nb_experiment_name, \* module 8 notebook: its experiment_name, or Undefined
    m3_pc,          \* module 3 notebook: the cell reached ("new", "session",
                    \* "uploaded", "named", "stored", "processing", "processed",
                    \* "done") or "error"
    s3_bucket_name, \* module 3: sagemaker_session.default_bucket()
    experiment_name, \* module 3: its experiment_name, or Undefined
    processing_job, \* module 3: the processing job sklearn_processor.run created
    downloaded,     \* module 3: the objects download_data has fetched
    s3_objects,     \* the objects held in S3, by URI
    stored,         \* the variables persisted by %store: name -> value
    runs            \* the experiment runs created by Run(...)

lambdaVars == <<event, lpc, result, invocations, endpoint_answer>>
netVars == <<net_template, net_stack_name, net_azs, net_status, net_stack_status,
             net_exports>>

pipeVars == <<nb_pc, bucket_name, pipeline, pipe_def, passed_params, exec_params,
              exec_status, step_status, step_attempts, step_metadata, registry,
              model_package_arn, endpoint_name, predict_calls, nb_experiment_name>>
m3Vars == <<m3_pc, s3_bucket_name, experiment_name, processing_job, downloaded>>
sharedVars == <<s3_objects, stored, runs>>

vars == <<lambdaVars, netVars, pipeVars, endpoints, m3Vars, sharedVars>>

(***************************************************************************)
(* Python values.  A value is a record [t, v]: t is the Python type.       *)
(* Floats are held in thousandths (v = 12 is 0.012).                       *)
(***************************************************************************)
PyStr(s)   == [t |-> "str",   v |-> s]
PyInt(n)   == [t |-> "int",   v |-> n]
PyFloat(m) == [t |-> "float", v |-> m]
PyNone     == [t |-> "None",  v |-> 0]
PyList(q)  == [t |-> "list",  v |-> q]
PyDict(f)  == [t |-> "dict",  v |-> f]
Raise(exc) == [t |-> "raise", v |-> exc]

IsRaise(x) == x.t = "raise"

\* obj[key], as Python evaluates it; key is a Python str or int.
GetItem(obj, key) ==
    IF IsRaise(obj) THEN obj
    ELSE IF obj.t = "dict" THEN
        IF key.t = "str" /\ key.v \in DOMAIN obj.v THEN obj.v[key.v]
        ELSE Raise("KeyError")
    ELSE IF obj.t = "list" THEN
        IF key.t # "int" THEN Raise("TypeError")
        ELSE IF key.v \in 0 .. (Len(obj.v) - 1) THEN obj.v[key.v + 1]
        ELSE Raise("IndexError")
    ELSE IF obj.t = "str" THEN
        \* a str indexed by a str: "string indices must be integers"
        IF key.t # "int" THEN Raise("TypeError")
        ELSE Raise("IndexError")
    ELSE Raise("TypeError")

\* The decimal digits of the fraction f/1000, trailing zeros dropped, one kept.
FracDigits(f) ==
    IF f % 100 = 0 THEN ToString(f \div 100)
    ELSE IF f % 10 = 0 THEN ToString(f \div 100) \o ToString((f \div 10) % 10)
    ELSE ToString(f \div 100) \o ToString((f \div 10) % 10) \o ToString(f % 10)

\* str(x) for the scalar values a score can be.
Str(x) ==
    IF IsRaise(x) THEN x
    ELSE IF x.t = "str" THEN x.v
    ELSE IF x.t = "int" THEN ToString(x.v)
    ELSE IF x.t = "float" THEN ToString(x.v \div 1000) \o "." \o FracDigits(x.v % 1000)
    ELSE IF x.t = "None" THEN "None"
    ELSE IF x.t = "bool" THEN (IF x.v THEN "True" ELSE "False")
    ELSE "<repr>"

(***************************************************************************)
(* JSON documents, as the endpoint's response body carries them, and       *)
(* json.loads, which turns a document into a Python value.                 *)
(***************************************************************************)
JObject(f) == [j |-> "object", c |-> f]
JArray(q)  == [j |-> "array",  c |-> q]
JInt(n)    == [j |-> "int",    c |-> n]
JReal(m)   == [j |-> "real",   c |-> m]
JString(s) == [j |-> "string", c |-> s]
JNull      == [j |-> "null",   c |-> 0]
JInvalid   == [j |-> "invalid", c |-> 0]

RECURSIVE json_loads(_)
json_loads(d) ==
    IF d.j = "object" THEN PyDict([k \in DOMAIN d.c |-> json_loads(d.c[k])])
    ELSE IF d.j = "array" THEN PyList([i \in 1 .. Len(d.c) |-> json_loads(d.c[i])])
    ELSE IF d.j = "int" THEN PyInt(d.c)
    ELSE IF d.j = "real" THEN PyFloat(d.c)
    ELSE IF d.j = "string" THEN PyStr(d.c)
    ELSE IF d.j = "null" THEN PyNone
    ELSE Raise("JSONDecodeError")

(***************************************************************************)
(* Module 6: the Lambda function.                                          *)
(***************************************************************************)
ENDPOINT_NAME == "end-to-end-ml-sm-pipeline-endpoint-XXXXXXXXXX"

\* What a call of a Python function ends in: a returned dict, None, or a raise.
NoResponse == [statusCode |-> 0, body |-> "", headers |-> [h \in {} |-> ""]]
Returned(r)  == [kind |-> "return", exc |-> "", resp |-> r]
ReturnedNone == [kind |-> "none",   exc |-> "", resp |-> NoResponse]
Raised(e)    == [kind |-> "raise",  exc |-> e,  resp |-> NoResponse]
NotRun       == [kind |-> "notrun", exc |-> "", resp |-> NoResponse]

\* A build_response that forgets the Access-Control-Allow-Headers entry.
ResponseHeaders_NoAllowHeaders ==
    [h \in {"Content-Type", "Access-Control-Allow-Origin",
            "Access-Control-Allow-Credentials"} |->
        CASE h = "Content-Type" -> "application/json"
          [] h = "Access-Control-Allow-Origin" -> "*"
          [] h = "Access-Control-Allow-Credentials" -> "true"]

ResponseHeaders ==
    [h \in {"Content-Type", "Access-Control-Allow-Origin",
            "Access-Control-Allow-Credentials", "Access-Control-Allow-Headers"} |->
        CASE h = "Content-Type" -> "application/json"
          [] h = "Access-Control-Allow-Origin" -> "*"
          [] h = "Access-Control-Allow-Credentials" -> "true"
          [] h = "Access-Control-Allow-Headers" -> "*"]

\* A build_response that answers with the score of the last prediction.
build_response_LastScore(status_code, response_body) ==
    LET preds == GetItem(response_body, PyStr("predictions"))
        last  == IF ~IsRaise(preds) /\ preds.t = "list" THEN Len(preds.v) - 1 ELSE 0
        score == GetItem(GetItem(preds, PyInt(last)), PyStr("score"))
    IN  IF IsRaise(score) THEN Raised(score.v)
        ELSE Returned([statusCode |-> status_code,
                       body |-> Str(score),
                       headers |-> ResponseHeaders])

\* A build_response that answers 'None' when the result holds no score.
build_response_DefaultScore(status_code, response_body) ==
    LET score == GetItem(GetItem(GetItem(response_body, PyStr("predictions")),
                                 PyInt(0)), PyStr("score"))
    IN  Returned([statusCode |-> status_code,
                  body |-> IF IsRaise(score) THEN "None" ELSE Str(score),
                  headers |-> ResponseHeaders])

\* build_response(status_code, response_body): the body is
\* str(response_body['predictions'][0]['score']) whatever response_body is.
build_response(status_code, response_body) ==
    LET score == GetItem(GetItem(GetItem(response_body, PyStr("predictions")),
                                 PyInt(0)), PyStr("score"))
    IN  IF IsRaise(score) THEN Raised(score.v)
        ELSE Returned([statusCode |-> status_code,
                       body |-> Str(score),
                       headers |-> ResponseHeaders])

\* An invoke_endpoint call that passes on the content type module 7 has the
\* client send.
InvokeEndpointCall_ClientType(turbine_data) ==
    [EndpointName |-> ENDPOINT_NAME, ContentType |-> "text/plain", Body |-> turbine_data]

\* An invocation of the endpoint that bears another module's naming.
InvokeEndpointCall_OtherEndpoint(turbine_data) ==
    [EndpointName |-> "end-to-end-ml-sm-endpoint", ContentType |-> "text/csv",
     Body |-> turbine_data]

\* One runtime.invoke_endpoint call, as the handler makes it.
InvokeEndpointCall(turbine_data) ==
    [EndpointName |-> ENDPOINT_NAME, ContentType |-> "text/csv", Body |-> turbine_data]

\* Variants of lambda_handler with one slip each: without the test for
\* 'requestContext' (an event of any origin with a method is dispatched), with
\* an own 400 answer for an empty body, or with a second invocation attempt
\* after a failed one.
lambda_handler_Variant(ev, out, anyOrigin, validates, retries) ==
    IF "requestContext" \in DOMAIN ev \/ (anyOrigin /\ "httpMethod" \in DOMAIN ev) THEN
        IF "httpMethod" \notin DOMAIN ev THEN
            [ret |-> Raised("KeyError"), calls |-> <<>>]
        ELSE IF ev["httpMethod"] = "OPTIONS" THEN
            [ret |-> build_response(200, PyStr("")), calls |-> <<>>]
        ELSE IF ev["httpMethod"] = "POST" THEN
            IF "body" \notin DOMAIN ev THEN
                [ret |-> Raised("KeyError"), calls |-> <<>>]
            ELSE IF validates /\ ev["body"] = "" THEN
                [ret |-> Returned([statusCode |-> 400, body |-> "empty record",
                                   headers |-> ResponseHeaders]),
                 calls |-> <<>>]
            ELSE
                LET turbine_data == ev["body"]
                    call == InvokeEndpointCall(turbine_data)
                IN  IF ~out.ok THEN
                        [ret |-> Raised(out.error),
                         calls |-> IF retries THEN <<call, call>> ELSE <<call>>]
                    ELSE
                        LET res == json_loads(out.Body)
                        IN  IF IsRaise(res) THEN
                                [ret |-> Raised(res.v), calls |-> <<call>>]
                            ELSE
                                [ret |-> build_response(200, res), calls |-> <<call>>]
        ELSE
            [ret |-> build_response(405, PyStr("null")), calls |-> <<>>]
    ELSE
        [ret |-> ReturnedNone, calls |-> <<>>]

lambda_handler_AnyOrigin(ev, out) == lambda_handler_Variant(ev, out, TRUE, FALSE, FALSE)
lambda_handler_ValidatesBody(ev, out) == lambda_handler_Variant(ev, out, FALSE, TRUE, FALSE)
lambda_handler_Retries(ev, out) == lambda_handler_Variant(ev, out, FALSE, FALSE, TRUE)

\* lambda_handler(event, context); `out` is what the endpoint answers if it is
\* invoked.  Yields the handler's outcome and the endpoint calls it made.
lambda_handler(ev, out) ==
    IF "requestContext" \in DOMAIN ev THEN
        IF "httpMethod" \notin DOMAIN ev THEN
            [ret |-> Raised("KeyError"), calls |-> <<>>]
        ELSE IF ev["httpMethod"] = "OPTIONS" THEN
            [ret |-> build_response(200, PyStr("")), calls |-> <<>>]
        ELSE IF ev["httpMethod"] = "POST" THEN
            IF "body" \notin DOMAIN ev THEN
                [ret |-> Raised("KeyError"), calls |-> <<>>]
            ELSE
                LET turbine_data == ev["body"]
                    call == InvokeEndpointCall(turbine_data)
                IN  IF ~out.ok THEN
                        [ret |-> Raised(out.error), calls |-> <<call>>]
                    ELSE
                        LET res == json_loads(out.Body)
                        IN  IF IsRaise(res) THEN
                                [ret |-> Raised(res.v), calls |-> <<call>>]
                            ELSE
                                [ret |-> build_response(200, res), calls |-> <<call>>]
        ELSE
            [ret |-> build_response(405, PyStr("null")), calls |-> <<>>]
    ELSE
        [ret |-> ReturnedNone, calls |-> <<>>]

(***************************************************************************)
(* The environment of the function: the events it can be invoked with and  *)
(* the answers of the inference endpoint.                                  *)
(***************************************************************************)
MaxPredictions == 2

Methods == {"OPTIONS", "POST", "GET", "PUT", "DELETE"}
Bodies == {"", "L,298.4,308.2,1582,70.7,216", "L, 298.4, 308.2, 1582, 70.7, 216",
           "M,300.1"}
ClientContentTypes == {"text/plain", "text/csv", "application/json"}
OptionalEventKeys == {"requestContext", "httpMethod", "body"}

EventOf(K, m, b, ct) ==
    [k \in K \cup {"headers"} |->
        CASE k = "requestContext" -> "ctx"
          [] k = "httpMethod" -> m
          [] k = "body" -> b
          [] k = "headers" -> ct]

Events ==
    { EventOf(K, m, b, ct) : K \in SUBSET OptionalEventKeys, m \in Methods,
                             b \in Bodies, ct \in ClientContentTypes }

EmptyEvent == [k \in {} |-> ""]

ScoreDocs == {JReal(0), JReal(12), JReal(500), JReal(1000), JInt(1), JString("0.9"),
              JNull}
PredictionDocs ==
    { JObject([k \in {"score"} |-> s]) : s \in ScoreDocs }
    \cup { JObject([k \in {"score", "label"} |-> IF k = "score" THEN s ELSE JInt(1)]) :
             s \in {JReal(12), JReal(500)} }
    \cup { JObject([k \in {"label"} |-> JInt(0)]), JObject([k \in {} |-> JNull]),
           JReal(500) }

PredictionLists == UNION { [1 .. n -> PredictionDocs] : n \in 0 .. MaxPredictions }

EndpointBodies ==
    { JObject([k \in {"predictions"} |-> JArray(q)]) : q \in PredictionLists }
    \cup { JObject([k \in {"predictions", "model"} |->
                     IF k = "predictions" THEN JArray(q) ELSE JString("xgb")]) :
             q \in { p \in PredictionLists : Len(p) >= 1 } }
    \cup { JObject([k \in {} |-> JNull]),
           JObject([k \in {"error"} |-> JString("bad input")]),
           JArray(<<>>), JString("0.5"), JNull, JInvalid }

EndpointErrors == {"ModelError", "ValidationError", "EndpointConnectionError"}

EndpointOutcomes ==
    { [ok |-> TRUE, Body |-> d, error |-> ""] : d \in EndpointBodies }
    \cup { [ok |-> FALSE, Body |-> JNull, error |-> e] : e \in EndpointErrors }

NoAnswer == [ok |-> FALSE, Body |-> JNull, error |-> "not invoked"]

\* An endpoint deployed without the endpoint_name argument: the SDK names it.
Endpoint_GeneratedName(name, arn, status) ==
    [name |-> "sagemaker-generated-endpoint-name", model_package |-> arn,
     approval_status |-> status]

\* An endpoint in service: its name, and the model package it was created
\* from with the approval status the package had then ("" for an endpoint
\* that was not created from a package).
Endpoint(name, arn, status) ==
    [name |-> name, model_package |-> arn, approval_status |-> status]

EndpointsNamed(name) == { e \in endpoints : e.name = name }

\* int(time.time()) when an endpoint is named.
Times == {1700000000, 1700000001}

EndpointNameAt(t) == "end-to-end-ml-sm-pipeline-endpoint-" \o ToString(t)

\* The names the endpoint of the previous module may bear: the name the
\* function holds in ENDPOINT_NAME (the function names the deployed endpoint)
\* or another one (it does not).
DeployedNames == {ENDPOINT_NAME} \cup { EndpointNameAt(t) : t \in Times }

\* What runtime.invoke_endpoint can answer to a call: any outcome of an
\* endpoint in service, a ValidationError when no endpoint bears the name.
Answers(call, out) ==
    EndpointsNamed(call.EndpointName) = {} => (~out.ok /\ out.error = "ValidationError")

LambdaInit ==
    /\ event = EmptyEvent
    /\ lpc = "idle"
    /\ result = NotRun
    /\ invocations = <<>>
    /\ endpoint_answer = NoAnswer

\* The previous module of the workshop deploys the model to an endpoint.
DeployModel ==
    /\ endpoints = {}
    /\ \E name \in DeployedNames : endpoints' = {Endpoint(name, "", "")}
    /\ UNCHANGED <<lambdaVars, netVars, pipeVars, m3Vars, sharedVars>>

\* API Gateway (or any caller) invokes the function with an event.
ReceiveEvent ==
    /\ lpc \in {"idle", "done"}
    /\ \E e \in Events : event' = e
    /\ lpc' = "handling"
    /\ result' = NotRun
    /\ invocations' = <<>>
    /\ endpoint_answer' = NoAnswer
    /\ UNCHANGED <<netVars, pipeVars, endpoints, m3Vars, sharedVars>>

\* The function runs lambda_handler on the event to its end.
RunHandler ==
    /\ lpc = "handling"
    /\ \E out \in EndpointOutcomes :
         LET r == lambda_handler(event, out)
         IN  /\ \A i \in 1 .. Len(r.calls) : Answers(r.calls[i], out)
             /\ result' = r.ret
             /\ invocations' = r.calls
             /\ endpoint_answer' = IF r.calls = <<>> THEN NoAnswer ELSE out
    /\ lpc' = "done"
    /\ UNCHANGED event
    /\ UNCHANGED <<netVars, pipeVars, endpoints, m3Vars, sharedVars>>


(***************************************************************************)
(* setup/: the two CloudFormation networking templates.                    *)
(* A property value is a literal, a Ref to a resource, a GetAtt of a       *)
(* resource, the i-th availability zone of the region (!Select i of        *)
(* Fn::GetAZs), or a !Sub of the stack name with a suffix.  A CIDR block   *)
(* a.b.c.d/n is the tuple <<a, b, c, d, n>>.  Name tags are left out.      *)
(***************************************************************************)
Lit(x)       == [kind |-> "lit",    val |-> x, attr |-> ""]
Ref(id)      == [kind |-> "ref",    val |-> id, attr |-> ""]
GetAtt(id,a) == [kind |-> "getatt", val |-> id, attr |-> a]
SelectAZ(i)  == [kind |-> "az",     val |-> i, attr |-> ""]
Sub(suffix)  == [kind |-> "sub",    val |-> suffix, attr |-> ""]

Resource(type, props, dependsOn) ==
    [Type |-> type, Properties |-> props, DependsOn |-> dependsOn]

\* A second private subnet given the first one's block.
VpcModePrivateSubnet2_SameBlock ==
    Resource("AWS::EC2::Subnet",
             [VpcId |-> Ref("SageMakerVPC"),
              CidrBlock |-> Lit(<<10, 0, 0, 0, 24>>),
              AvailabilityZone |-> SelectAZ(1)], {})

VpcModePrivateSubnet2 ==
    Resource("AWS::EC2::Subnet",
             [VpcId |-> Ref("SageMakerVPC"),
              CidrBlock |-> Lit(<<10, 0, 1, 0, 24>>),
              AvailabilityZone |-> SelectAZ(1)], {})

\* A private default route that goes to the Internet gateway.
VpcModePrivateRoute_ViaInternetGateway ==
    Resource("AWS::EC2::Route",
             [RouteTableId |-> Ref("SageMakerPrivateRouteTable"),
              DestinationCidrBlock |-> Lit(<<0, 0, 0, 0, 0>>),
              GatewayId |-> Ref("SageMakerInternetGateway")], {})

\* A private default route entered in the public route table.
VpcModePrivateRoute_InPublicTable ==
    Resource("AWS::EC2::Route",
             [RouteTableId |-> Ref("SageMakerPublicRouteTable"),
              DestinationCidrBlock |-> Lit(<<0, 0, 0, 0, 0>>),
              NatGatewayId |-> Ref("SageMakerNATGateway")], {})

VpcModePrivateRoute ==
    Resource("AWS::EC2::Route",
             [RouteTableId |-> Ref("SageMakerPrivateRouteTable"),
              DestinationCidrBlock |-> Lit(<<0, 0, 0, 0, 0>>),
              NatGatewayId |-> Ref("SageMakerNATGateway")], {})

\* An elastic IP without its DependsOn.
VpcModeNATEIP_NoDependsOn ==
    Resource("AWS::EC2::EIP", [Domain |-> Lit("vpc")], {})

VpcModeNATEIP ==
    Resource("AWS::EC2::EIP", [Domain |-> Lit("vpc")], {"SageMakerIGWAttachment"})

\* An ingress rule that admits any address instead of the group's members.
VpcModeSelfIngress_FromAnywhere ==
    Resource("AWS::EC2::SecurityGroupIngress",
             [IpProtocol |-> Lit("-1"),
              CidrIp |-> Lit(<<0, 0, 0, 0, 0>>),
              GroupId |-> Ref("SageMakerSecurityGroup")], {})

VpcModeSelfIngress ==
    Resource("AWS::EC2::SecurityGroupIngress",
             [IpProtocol |-> Lit("-1"),
              SourceSecurityGroupId |-> Ref("SageMakerSecurityGroup"),
              GroupId |-> Ref("SageMakerSecurityGroup")], {})

VpcModeResources ==
    [r \in {"SageMakerVPC", "SageMakerInternetGateway", "SageMakerIGWAttachment",
            "SageMakerPrivateSubnet1", "SageMakerPrivateSubnet2",
            "SageMakerPrivateRouteTable", "SageMakerPrivateRoute",
            "SageMakerPrivateSubnet1RouteTableAssociation",
            "SageMakerPrivateSubnet2RouteTableAssociation",
            "SageMakerPublicSubnet1", "SageMakerPublicRouteTable",
            "SageMakerPublicRoute", "studioVPCPublicSubnet1RouteTableAssociation",
            "SageMakerNATEIP", "SageMakerNATGateway", "SageMakerSecurityGroup",
            "SageMakerSecurityGroupSelfIngress"} |->
      CASE r = "SageMakerVPC" ->
             Resource("AWS::EC2::VPC",
                      [CidrBlock |-> Lit(<<10, 0, 0, 0, 16>>),
                       EnableDnsSupport |-> Lit(TRUE),
                       EnableDnsHostnames |-> Lit(TRUE)], {})
        [] r = "SageMakerInternetGateway" ->
             Resource("AWS::EC2::InternetGateway", [x \in {} |-> Lit(0)], {})
        [] r = "SageMakerIGWAttachment" ->
             Resource("AWS::EC2::VPCGatewayAttachment",
                      [InternetGatewayId |-> Ref("SageMakerInternetGateway"),
                       VpcId |-> Ref("SageMakerVPC")], {})
        [] r = "SageMakerPrivateSubnet1" ->
             Resource("AWS::EC2::Subnet",
                      [VpcId |-> Ref("SageMakerVPC"),
                       CidrBlock |-> Lit(<<10, 0, 0, 0, 24>>),
                       AvailabilityZone |-> SelectAZ(0)], {})
        [] r = "SageMakerPrivateSubnet2" -> VpcModePrivateSubnet2
        [] r = "SageMakerPrivateRouteTable" ->
             Resource("AWS::EC2::RouteTable", [VpcId |-> Ref("SageMakerVPC")], {})
        [] r = "SageMakerPrivateRoute" -> VpcModePrivateRoute
        [] r = "SageMakerPrivateSubnet1RouteTableAssociation" ->
             Resource("AWS::EC2::SubnetRouteTableAssociation",
                      [SubnetId |-> Ref("SageMakerPrivateSubnet1"),
                       RouteTableId |-> Ref("SageMakerPrivateRouteTable")], {})
        [] r = "SageMakerPrivateSubnet2RouteTableAssociation" ->
             Resource("AWS::EC2::SubnetRouteTableAssociation",
                      [SubnetId |-> Ref("SageMakerPrivateSubnet2"),
                       RouteTableId |-> Ref("SageMakerPrivateRouteTable")], {})
        [] r = "SageMakerPublicSubnet1" ->
             Resource("AWS::EC2::Subnet",
                      [VpcId |-> Ref("SageMakerVPC"),
                       CidrBlock |-> Lit(<<10, 0, 2, 0, 24>>),
                       AvailabilityZone |-> SelectAZ(0)], {})
        [] r = "SageMakerPublicRouteTable" ->
             Resource("AWS::EC2::RouteTable", [VpcId |-> Ref("SageMakerVPC")], {})
        [] r = "SageMakerPublicRoute" ->
             Resource("AWS::EC2::Route",
                      [RouteTableId |-> Ref("SageMakerPublicRouteTable"),
                       DestinationCidrBlock |-> Lit(<<0, 0, 0, 0, 0>>),
                       GatewayId |-> Ref("SageMakerInternetGateway")], {})
        [] r = "studioVPCPublicSubnet1RouteTableAssociation" ->
             Resource("AWS::EC2::SubnetRouteTableAssociation",
                      [SubnetId |-> Ref("SageMakerPublicSubnet1"),
                       RouteTableId |-> Ref("SageMakerPublicRouteTable")], {})
        [] r = "SageMakerNATEIP" -> VpcModeNATEIP
        [] r = "SageMakerNATGateway" ->
             Resource("AWS::EC2::NatGateway",
                      [AllocationId |-> GetAtt("SageMakerNATEIP", "AllocationId"),
                       SubnetId |-> Ref("SageMakerPublicSubnet1")],
                      {"SageMakerIGWAttachment"})
        [] r = "SageMakerSecurityGroup" ->
             Resource("AWS::EC2::SecurityGroup",
                      [SecurityGroupEgress |->
                           Lit(<<[IpProtocol |-> "-1", CidrIp |-> <<0, 0, 0, 0, 0>>]>>),
                       GroupDescription |-> Lit("Security Group for SageMaker Studio"),
                       VpcId |-> Ref("SageMakerVPC")], {})
        [] r = "SageMakerSecurityGroupSelfIngress" -> VpcModeSelfIngress]

VpcModeOutputs ==
    [o \in {"SageMakerVPC", "SageMakerSubnet1", "SageMakerSubnet2",
            "SageMakerSecurityGroup"} |->
      CASE o = "SageMakerVPC" ->
             [Value |-> Ref("SageMakerVPC"), ExportName |-> Sub("-VPC")]
        [] o = "SageMakerSubnet1" ->
             [Value |-> Ref("SageMakerPrivateSubnet1"), ExportName |-> Sub("-Subnet1")]
        [] o = "SageMakerSubnet2" ->
             [Value |-> Ref("SageMakerPrivateSubnet2"), ExportName |-> Sub("-Subnet2")]
        [] o = "SageMakerSecurityGroup" ->
             [Value |-> Ref("SageMakerSecurityGroup"),
              ExportName |-> Sub("-SecurityGroup")]]

DirectModeResources ==
    [r \in {"SageMakerVPC", "SageMakerInternetGateway", "SageMakerIGWAttachment",
            "SageMakerPublicSubnet1", "SageMakerPublicSubnet2",
            "SageMakerPublicRouteTable", "SageMakerPublicRoute",
            "SageMakerPublicSubnet1RouteTableAssociation",
            "SageMakerPublicSubnet2RouteTableAssociation"} |->
      CASE r = "SageMakerVPC" ->
             Resource("AWS::EC2::VPC",
                      [CidrBlock |-> Lit(<<10, 0, 0, 0, 16>>),
                       EnableDnsSupport |-> Lit(TRUE),
                       EnableDnsHostnames |-> Lit(TRUE)], {})
        [] r = "SageMakerInternetGateway" ->
             Resource("AWS::EC2::InternetGateway", [x \in {} |-> Lit(0)], {})
        [] r = "SageMakerIGWAttachment" ->
             Resource("AWS::EC2::VPCGatewayAttachment",
                      [InternetGatewayId |-> Ref("SageMakerInternetGateway"),
                       VpcId |-> Ref("SageMakerVPC")], {})
        [] r = "SageMakerPublicSubnet1" ->
             Resource("AWS::EC2::Subnet",
                      [VpcId |-> Ref("SageMakerVPC"),
                       CidrBlock |-> Lit(<<10, 0, 0, 0, 24>>),
                       AvailabilityZone |-> SelectAZ(0)], {})
        [] r = "SageMakerPublicSubnet2" ->
             Resource("AWS::EC2::Subnet",
                      [VpcId |-> Ref("SageMakerVPC"),
                       CidrBlock |-> Lit(<<10, 0, 1, 0, 24>>),
                       AvailabilityZone |-> SelectAZ(1)], {})
        [] r = "SageMakerPublicRouteTable" ->
             Resource("AWS::EC2::RouteTable", [VpcId |-> Ref("SageMakerVPC")], {})
        [] r = "SageMakerPublicRoute" ->
             Resource("AWS::EC2::Route",
                      [RouteTableId |-> Ref("SageMakerPublicRouteTable"),
                       DestinationCidrBlock |-> Lit(<<0, 0, 0, 0, 0>>),
                       GatewayId |-> Ref("SageMakerInternetGateway")], {})
        [] r = "SageMakerPublicSubnet1RouteTableAssociation" ->
             Resource("AWS::EC2::SubnetRouteTableAssociation",
                      [SubnetId |-> Ref("SageMakerPublicSubnet1"),
                       RouteTableId |-> Ref("SageMakerPublicRouteTable")], {})
        [] r = "SageMakerPublicSubnet2RouteTableAssociation" ->
             Resource("AWS::EC2::SubnetRouteTableAssociation",
                      [SubnetId |-> Ref("SageMakerPublicSubnet2"),
                       RouteTableId |-> Ref("SageMakerPublicRouteTable")], {})]

\* Outputs whose second subnet is the first one again.
DirectModeOutputs_SameSubnet ==
    [o \in {"SageMakerVPC", "SageMakerSubnet1", "SageMakerSubnet2"} |->
      CASE o = "SageMakerVPC" ->
             [Value |-> Ref("SageMakerVPC"), ExportName |-> Sub("-VPC")]
        [] o = "SageMakerSubnet1" ->
             [Value |-> Ref("SageMakerPublicSubnet1"), ExportName |-> Sub("-Subnet1")]
        [] o = "SageMakerSubnet2" ->
             [Value |-> Ref("SageMakerPublicSubnet1"), ExportName |-> Sub("-Subnet2")]]

DirectModeOutputs ==
    [o \in {"SageMakerVPC", "SageMakerSubnet1", "SageMakerSubnet2"} |->
      CASE o = "SageMakerVPC" ->
             [Value |-> Ref("SageMakerVPC"), ExportName |-> Sub("-VPC")]
        [] o = "SageMakerSubnet1" ->
             [Value |-> Ref("SageMakerPublicSubnet1"), ExportName |-> Sub("-Subnet1")]
        [] o = "SageMakerSubnet2" ->
             [Value |-> Ref("SageMakerPublicSubnet2"), ExportName |-> Sub("-Subnet2")]]

Templates == {"vpc_mode", "direct_mode"}
ResourcesOf(t) == IF t = "vpc_mode" THEN VpcModeResources ELSE DirectModeResources
OutputsOf(t)   == IF t = "vpc_mode" THEN VpcModeOutputs ELSE DirectModeOutputs

\* The resources a resource refers to (Ref, GetAtt) or names in DependsOn:
\* CloudFormation creates it only once they are created.
DependenciesOf(t, r) ==
    LET res == ResourcesOf(t)[r]
    IN  res.DependsOn
        \cup { res.Properties[k].val :
                 k \in { k \in DOMAIN res.Properties :
                           res.Properties[k].kind \in {"ref", "getatt"} } }

\* CIDR arithmetic on <<a, b, c, d, n>>, n >= 1.
RECURSIVE Pow2(_)
Pow2(n) == IF n = 0 THEN 1 ELSE 2 * Pow2(n - 1)
IpValue(c) == ((c[1] * 256 + c[2]) * 256 + c[3]) * 256 + c[4]
CidrSize(c) == Pow2(32 - c[5])
CidrFirst(c) == IpValue(c) - (IpValue(c) % CidrSize(c))
CidrLast(c) == CidrFirst(c) + CidrSize(c) - 1
CidrWithin(inner, outer) ==
    CidrFirst(outer) <= CidrFirst(inner) /\ CidrLast(inner) <= CidrLast(outer)
CidrDisjoint(c1, c2) == CidrLast(c1) < CidrFirst(c2) \/ CidrLast(c2) < CidrFirst(c1)

StackNames == {"sagemaker-networking", "ws"}
RegionAZs == {<<"eu-west-1a", "eu-west-1b", "eu-west-1c">>, <<"us-west-1a", "us-west-1c">>}

NoStatus == [r \in {} |-> "none"]

NetInit ==
    /\ net_template = "none"
    /\ net_stack_name = ""
    /\ net_azs = <<>>
    /\ net_status = NoStatus
    /\ net_stack_status = "none"
    /\ net_exports = {}

\* A stack is created from one of the two templates.
CreateStack ==
    /\ net_stack_status = "none"
    /\ \E t \in Templates, n \in StackNames, azs \in RegionAZs :
         /\ net_template' = t
         /\ net_stack_name' = n
         /\ net_azs' = azs
         /\ net_status' = [r \in DOMAIN ResourcesOf(t) |-> "none"]
    /\ net_stack_status' = "CREATE_IN_PROGRESS"
    /\ UNCHANGED net_exports
    /\ UNCHANGED <<lambdaVars, pipeVars, endpoints, m3Vars, sharedVars>>

\* CloudFormation starts creating a resource whose dependencies all exist.
StartResource ==
    /\ net_stack_status = "CREATE_IN_PROGRESS"
    /\ \E r \in DOMAIN net_status :
         /\ net_status[r] = "none"
         /\ \A d \in DependenciesOf(net_template, r) : net_status[d] = "complete"
         /\ net_status' = [net_status EXCEPT ![r] = "in_progress"]
    /\ UNCHANGED <<net_template, net_stack_name, net_azs, net_stack_status, net_exports>>
    /\ UNCHANGED <<lambdaVars, pipeVars, endpoints, m3Vars, sharedVars>>

FinishResource ==
    /\ net_stack_status = "CREATE_IN_PROGRESS"
    /\ \E r \in DOMAIN net_status :
         /\ net_status[r] = "in_progress"
         /\ net_status' = [net_status EXCEPT ![r] = "complete"]
    /\ UNCHANGED <<net_template, net_stack_name, net_azs, net_stack_status, net_exports>>
    /\ UNCHANGED <<lambdaVars, pipeVars, endpoints, m3Vars, sharedVars>>

\* The value of an output or export name once the stack exists.
Resolve(x) ==
    IF x.kind = "sub" THEN net_stack_name \o x.val
    ELSE IF x.kind = "az" THEN net_azs[x.val + 1]
    ELSE x.val

\* With every resource created the stack completes and its outputs are exported.
CompleteStack ==
    /\ net_stack_status = "CREATE_IN_PROGRESS"
    /\ \A r \in DOMAIN net_status : net_status[r] = "complete"
    /\ net_stack_status' = "CREATE_COMPLETE"
    /\ net_exports' =
         { [Output |-> o,
            Name |-> Resolve(OutputsOf(net_template)[o].ExportName),
            Value |-> Resolve(OutputsOf(net_template)[o].Value)] :
           o \in DOMAIN OutputsOf(net_template) }
    /\ UNCHANGED <<net_template, net_stack_name, net_azs, net_status>>
    /\ UNCHANGED <<lambdaVars, pipeVars, endpoints, m3Vars, sharedVars>>

\* The network as created so far.
Existing == { r \in DOMAIN net_status : net_status[r] = "complete" }
ExistingOfType(type) ==
    { r \in Existing : ResourcesOf(net_template)[r].Type = type }
Props(r) == ResourcesOf(net_template)[r].Properties

\* The route tables a subnet is associated with, and the routes of a table.
RouteTablesOf(subnet) ==
    { Props(a).RouteTableId.val :
        a \in { a \in ExistingOfType("AWS::EC2::SubnetRouteTableAssociation") :
                  Props(a).SubnetId.val = subnet } }
RoutesIn(rt) ==
    { r \in ExistingOfType("AWS::EC2::Route") : Props(r).RouteTableId.val = rt }

\* The rules of a security group as created so far: the egress rules it was
\* created with, and one ingress rule per existing SecurityGroupIngress
\* resource of the group (the group itself declares none).
NoCidr == <<>>
EgressRules(sg) == { Props(sg).SecurityGroupEgress.val[i] :
                       i \in 1 .. Len(Props(sg).SecurityGroupEgress.val) }
IngressRules(sg) ==
    { [IpProtocol |-> Props(r).IpProtocol.val,
       SourceGroup |-> IF "SourceSecurityGroupId" \in DOMAIN Props(r)
                       THEN Props(r).SourceSecurityGroupId.val ELSE "",
       SourceCidr |-> IF "CidrIp" \in DOMAIN Props(r)
                      THEN Props(r).CidrIp.val ELSE NoCidr] :
        r \in { r \in ExistingOfType("AWS::EC2::SecurityGroupIngress") :
                  Props(r).GroupId.val = sg } }

(***************************************************************************)
(* Module 3: feature engineering.  The notebook uploads the raw dataset,   *)
(* names and stores the experiment, runs the processing job and downloads  *)
(* the validation features.  S3 objects are held by URI.                   *)
(***************************************************************************)
Buckets == {"sagemaker-eu-west-1-111122223333", "sagemaker-us-east-1-111122223333"}

s3_key_prefix == "end-to-end-ml"
raw_data_file_name == "predictive_maintenance_raw_data_header.csv"

\* An upload under a key prefix the processing job does not read.
raw_data_key_Elsewhere == s3_key_prefix \o "/data/raw_upload"

raw_data_key == s3_key_prefix \o "/data/raw"

S3Uri(bucket, key) == "s3://" \o bucket \o "/" \o key

\* sagemaker_session.upload_data(path, bucket, key_prefix): the object written.
upload_data(path, bucket, key_prefix) == S3Uri(bucket, key_prefix \o "/" \o path)

\* The objects whose URI starts with the given one: what may follow it is
\* nothing or one of the file names in use.
ObjectsUnder(objects, uri) ==
    LET KeyTails == {"", raw_data_file_name, "val_features.csv", "model.tar.gz"}
    IN  { o \in objects : \E tail \in KeyTails : o = uri \o tail }

\* time.strftime(format, time.localtime()) at t seconds since the epoch, on
\* an instance whose local time is UTC, for the notebooks' two formats.
strftime(format, t) ==
    LET Pad2(n) == IF n < 10 THEN "0" \o ToString(n) ELSE ToString(n)
        secs == t % 86400
        z    == (t \div 86400) + 719468
        era  == z \div 146097
        doe  == z - era * 146097
        yoe  == (doe - (doe \div 1460) + (doe \div 36524) - (doe \div 146096)) \div 365
        doy  == doe - (365 * yoe + (yoe \div 4) - (yoe \div 100))
        mp   == (5 * doy + 2) \div 153
        d    == doy - ((153 * mp + 2) \div 5) + 1
        m    == IF mp < 10 THEN mp + 3 ELSE mp - 9
        y    == yoe + era * 400 + (IF m <= 2 THEN 1 ELSE 0)
        hms  == Pad2(secs \div 3600) \o "-" \o Pad2((secs % 3600) \div 60)
                    \o "-" \o Pad2(secs % 60)
    IN  IF format = "%H-%M-%S" THEN hms
        ELSE ToString(y) \o "-" \o Pad2(m) \o "-" \o Pad2(d) \o "-" \o hms

ExperimentNameAt(t) == "ml-end-to-end-" \o strftime("%Y-%m-%d-%H-%M-%S", t)

\* A Python name that is not bound, and the %store database with no entry.
Undefined == "<undefined>"
NoStore == [n \in {} |-> ""]

\* %store name: the database after the value is persisted.
store(db, name, value) ==
    [n \in DOMAIN db \cup {name} |-> IF n = name THEN value ELSE db[n]]

\* A restore that binds a default name when nothing is stored.
store_restore_Default(db, name) ==
    IF name \in DOMAIN db THEN db[name] ELSE "ml-end-to-end"

\* %store -r name: the value bound to the name afterwards ("no stored
\* variable" leaves it unbound).
store_restore(db, name) ==
    IF name \in DOMAIN db THEN db[name] ELSE Undefined

\* Run(experiment_name=..., run_name=...)
Run(experiment, run_name) == [experiment_name |-> experiment, run_name |-> run_name]

\* A path relative to a directory, with its '..' components resolved.
RECURSIVE NormPath(_, _)
NormPath(dir, rel) ==
    IF rel = <<>> THEN dir
    ELSE IF Head(rel) = ".." THEN NormPath(SubSeq(dir, 1, Len(dir) - 1), Tail(rel))
    ELSE NormPath(Append(dir, Head(rel)), Tail(rel))

ProcessingInput(name, source, destination) ==
    [input_name |-> name, source |-> source, destination |-> destination]
ProcessingOutput(name, source, destination) ==
    [output_name |-> name, source |-> source, destination |-> destination]

\* The S3 locations of the notebook's processing cell.
Module3Paths(bucket) ==
    [raw_data_path   |-> "s3://" \o bucket \o "/" \o s3_key_prefix \o "/data/raw/",
     train_data_path |-> "s3://" \o bucket \o "/" \o s3_key_prefix \o "/data/preprocessed/train/",
     val_data_path   |-> "s3://" \o bucket \o "/" \o s3_key_prefix \o "/data/preprocessed/val/",
     test_data_path  |-> "s3://" \o bucket \o "/" \o s3_key_prefix \o "/data/preprocessed/test/",
     model_path      |-> "s3://" \o bucket \o "/" \o s3_key_prefix \o "/output/sklearn/"]

\* SKLearnProcessor(...) and sklearn_processor.run(code, inputs, outputs,
\* arguments) of module 3: the processing job it asks for.
Module3ProcessingJob(bucket) ==
    [base_job_name     |-> "sm-feature-engineering",
     script            |-> NormPath(<<"03_feature_engineering">>,
                                    <<"source_dir", "preprocessor.py">>),
     framework_version |-> "0.20.0",
     instance_type     |-> "ml.m5.large",
     instance_count    |-> 1,
     arguments         |-> <<"--train-test-split-ratio", "0.2">>,
     inputs  |-> << ProcessingInput("raw_data", Module3Paths(bucket).raw_data_path,
                                    "/opt/ml/processing/input") >>,
     outputs |-> << ProcessingOutput("train_data", "/opt/ml/processing/train",
                                     Module3Paths(bucket).train_data_path),
                    ProcessingOutput("val_data", "/opt/ml/processing/val",
                                     Module3Paths(bucket).val_data_path),
                    ProcessingOutput("test_data", "/opt/ml/processing/test",
                                     Module3Paths(bucket).test_data_path),
                    ProcessingOutput("model", "/opt/ml/processing/model",
                                     Module3Paths(bucket).model_path) >>]

NoJob == [request |-> <<>>, read |-> {}, status |-> "none"]

\* What the script may leave in the container directory of each output: the
\* validation features the notebook reads afterwards, or nothing there.
ScriptRuns ==
    { [o \in {"/opt/ml/processing/train", "/opt/ml/processing/test"} |-> {}]
        @@ ("/opt/ml/processing/val" :> val) @@ ("/opt/ml/processing/model" :> {"model.tar.gz"}) :
        val \in {{"val_features.csv"}, {}} }

\* The objects a completed job has uploaded: each file of an output's
\* container directory, under the output's destination.
UploadedOutputs(request, files) ==
    UNION { { request.outputs[i].destination \o f : f \in files[request.outputs[i].source] } :
              i \in 1 .. Len(request.outputs) }

\* A download from the 'model' output instead of the validation features.
validation_features_key_prefix_Model == s3_key_prefix \o "/output/sklearn/model.tar.gz"

validation_features_key_prefix ==
    s3_key_prefix \o "/data/preprocessed/val/val_features.csv"

\* sagemaker_session.download_data(path, bucket, key_prefix): the objects fetched.
download_data(objects, bucket, key_prefix) == ObjectsUnder(objects, S3Uri(bucket, key_prefix))

Mod3Fresh ==
    /\ m3_pc = "new"
    /\ s3_bucket_name = ""
    /\ experiment_name = Undefined
    /\ processing_job = NoJob
    /\ downloaded = {}
    /\ s3_objects = {}
    /\ runs = {}

\* What %store may hold from an earlier session of module 3.
EarlierStores == {NoStore, store(NoStore, "experiment_name", ExperimentNameAt(1699990000))}

m3Frame == <<lambdaVars, netVars, pipeVars, endpoints>>

\* sagemaker_session = sagemaker.Session(); s3_bucket_name = ...default_bucket()
Mod3Session ==
    /\ m3_pc = "new"
    /\ \E b \in Buckets : s3_bucket_name' = b
    /\ m3_pc' = "session"
    /\ UNCHANGED <<experiment_name, processing_job, downloaded, sharedVars, m3Frame>>

\* sagemaker_session.upload_data(raw_data_file_name, s3_bucket_name, key_prefix=raw_data_key)
UploadRawData ==
    /\ m3_pc = "session"
    /\ s3_objects' = s3_objects \cup
           {upload_data(raw_data_file_name, s3_bucket_name, raw_data_key)}
    /\ m3_pc' = "uploaded"
    /\ UNCHANGED <<s3_bucket_name, experiment_name, processing_job, downloaded,
                   stored, runs, m3Frame>>

\* experiment_name = f"ml-end-to-end-{time.strftime(...)}"
NameExperiment ==
    /\ m3_pc = "uploaded"
    /\ \E t \in Times : experiment_name' = ExperimentNameAt(t)
    /\ m3_pc' = "named"
    /\ UNCHANGED <<s3_bucket_name, processing_job, downloaded, sharedVars, m3Frame>>

\* %store experiment_name
StoreExperimentName ==
    /\ m3_pc = "named"
    /\ stored' = store(stored, "experiment_name", experiment_name)
    /\ m3_pc' = "stored"
    /\ UNCHANGED <<s3_bucket_name, experiment_name, processing_job, downloaded,
                   s3_objects, runs, m3Frame>>

\* with Run(experiment_name=experiment_name, run_name=...) as run:
\*     sklearn_processor.run(...): the job is created and reads its input; a
\* job whose input prefix holds no object fails.
RunProcessing ==
    /\ m3_pc = "stored"
    /\ \E t \in Times :
         runs' = runs \cup
             {Run(experiment_name, "feature-engineering-" \o strftime("%H-%M-%S", t))}
    /\ LET request == Module3ProcessingJob(s3_bucket_name)
           read    == ObjectsUnder(s3_objects, request.inputs[1].source)
       IN  processing_job' =
               [request |-> request, read |-> read,
                status |-> IF read = {} THEN "Failed" ELSE "InProgress"]
    /\ m3_pc' = "processing"
    /\ UNCHANGED <<s3_bucket_name, experiment_name, downloaded, s3_objects, stored,
                   m3Frame>>

\* The job ends: completed, with its outputs uploaded, or failed, and run()
\* raises.
ProcessingEnds ==
    /\ m3_pc = "processing"
    /\ \/ /\ processing_job.status = "InProgress"
          /\ \E files \in ScriptRuns :
               s3_objects' = s3_objects \cup UploadedOutputs(processing_job.request, files)
          /\ processing_job' = [processing_job EXCEPT !.status = "Completed"]
          /\ m3_pc' = "processed"
       \/ /\ processing_job' = [processing_job EXCEPT !.status = "Failed"]
          /\ m3_pc' = "error"
          /\ UNCHANGED s3_objects
    /\ UNCHANGED <<s3_bucket_name, experiment_name, downloaded, stored, runs, m3Frame>>

\* sagemaker_session.download_data('./', s3_bucket_name, validation_features_key_prefix)
DownloadValidation ==
    /\ m3_pc = "processed"
    /\ downloaded' = download_data(s3_objects, s3_bucket_name, validation_features_key_prefix)
    /\ m3_pc' = "done"
    /\ UNCHANGED <<s3_bucket_name, experiment_name, processing_job, sharedVars, m3Frame>>

Mod3Next ==
    \/ Mod3Session
    \/ UploadRawData
    \/ NameExperiment
    \/ StoreExperimentName
    \/ RunProcessing
    \/ ProcessingEnds
    \/ DownloadValidation

(***************************************************************************)
(* Module 8: the SageMaker pipeline.                                       *)
(* A step argument is a literal, a pipeline parameter, or a property of    *)
(* another step (processing_step.properties...Outputs[o], training_step    *)
(* .properties.ModelArtifacts); the references are what the steps record.  *)
(***************************************************************************)
prefix == "end-to-end-ml"

S3Path(bucket, rest) == "s3://" \o bucket \o "/" \o prefix \o rest

Parameter(name, type, default) == [name |-> name, type |-> type, default_value |-> default]

\* A declaration whose default approves every registered model.
model_approval_status_param_Approved ==
    Parameter("model_approval_status", "String", "Approved")

model_approval_status_param ==
    Parameter("model_approval_status", "String", "PendingManualApproval")

\* The pipeline parameters, in the order of Pipeline(parameters=[...]).
PipelineParameters(bucket) ==
    << Parameter("raw_data_path", "String", S3Path(bucket, "/data/raw/")),
       Parameter("train_data_path", "String", S3Path(bucket, "/data/preprocessed/train/")),
       Parameter("val_data_path", "String", S3Path(bucket, "/data/preprocessed/val/")),
       Parameter("test_data_path", "String", S3Path(bucket, "/data/preprocessed/test/")),
       Parameter("model_path", "String", S3Path(bucket, "/output/sklearn/model.tar.gz")),
       Parameter("processing_instance_type", "String", "ml.m5.large"),
       Parameter("processing_instance_count", "Integer", 1),
       Parameter("train_test_split_ratio", "String", "0.2"),
       Parameter("max_depth", "String", "3"),
       Parameter("eta", "String", "0.1"),
       Parameter("gamma", "String", "0"),
       Parameter("min_child_weight", "String", "1"),
       Parameter("objective", "String", "binary:logistic"),
       Parameter("num_round", "String", "10"),
       Parameter("eval_metric", "String", "auc"),
       Parameter("training_instance_type", "String", "ml.m5.xlarge"),
       Parameter("training_instance_count", "Integer", 1),
       Parameter("output_path", "String", S3Path(bucket, "/output/")),
       Parameter("deploy_instance_type", "String", "ml.m5.2xlarge"),
       model_approval_status_param >>

ParamRef(name)      == [kind |-> "param", name |-> name, path |-> ""]
PropRef(step, path) == [kind |-> "prop",  name |-> step, path |-> path]

\* A step: its name, type, the parameters and step properties it reads and,
\* for a register step, the models it registers, in their order.
Step(name, type, refs) ==
    [name |-> name, type |-> type, refs |-> refs, models |-> <<>>]

\* A script looked up in the notebook's own directory.
code_path_OwnDirectory == <<"source_dir", "preprocessor.py">>

code_path == <<"..", "03_feature_engineering", "source_dir", "preprocessor.py">>

\* SKLearnProcessor(...) and ProcessingStep(name='Processing', code=code_path,
\* processor, inputs, outputs, job_arguments) of module 8, the notebook being
\* in a directory next to module 3's: the processing job the step asks for,
\* params[n] being the value of pipeline parameter n.
ProcessingStepJob(params) ==
    [script            |-> NormPath(<<"08_sagemaker_pipelines">>, code_path),
     framework_version |-> "0.20.0",
     instance_type     |-> params["processing_instance_type"],
     instance_count    |-> params["processing_instance_count"],
     arguments         |-> <<"--train-test-split-ratio", params["train_test_split_ratio"]>>,
     inputs  |-> << ProcessingInput("raw_data", params["raw_data_path"],
                                    "/opt/ml/processing/input") >>,
     outputs |-> << ProcessingOutput("train_data", "/opt/ml/processing/train",
                                     params["train_data_path"]),
                    ProcessingOutput("val_data", "/opt/ml/processing/val",
                                     params["val_data_path"]),
                    ProcessingOutput("test_data", "/opt/ml/processing/test",
                                     params["test_data_path"]),
                    ProcessingOutput("model", "/opt/ml/processing/model",
                                     params["model_path"]) >>]

processing_step ==
    Step("Processing", "Processing",
         { ParamRef("processing_instance_type"), ParamRef("processing_instance_count"),
           ParamRef("raw_data_path"), ParamRef("train_data_path"),
           ParamRef("val_data_path"), ParamRef("test_data_path"),
           ParamRef("model_path"), ParamRef("train_test_split_ratio") })

\* Training inputs that name the S3 destinations by parameter instead of
\* reading the processing step's outputs.
training_inputs_ByParameter ==
    { ParamRef("train_data_path"), ParamRef("val_data_path") }

\* The 'train' and 'validation' inputs of the training step.
training_inputs ==
    { PropRef("Processing", "train_data"), PropRef("Processing", "val_data") }

training_step ==
    Step("Training", "Training",
         { ParamRef("max_depth"), ParamRef("eta"), ParamRef("gamma"),
           ParamRef("min_child_weight"), ParamRef("objective"), ParamRef("num_round"),
           ParamRef("eval_metric"), ParamRef("output_path"),
           ParamRef("training_instance_type"), ParamRef("training_instance_count") }
         \cup training_inputs)

\* An XGBoost model that takes its artifacts from the output path instead
\* of the training step's properties.
xgboost_model_FromOutputPath ==
    [name |-> "end-to-end-ml-sm-xgb-model",
     model_data |-> ParamRef("output_path"),
     entry_point |-> "inference.py"]

\* The two models of the serial inference pipeline, each with an entry point.
sklearn_model ==
    [name |-> "end-to-end-ml-sm-skl-model", model_data |-> PropRef("Processing", "model"),
     entry_point |-> "inference.py"]
xgboost_model ==
    [name |-> "end-to-end-ml-sm-xgb-model",
     model_data |-> PropRef("Training", "ModelArtifacts"),
     entry_point |-> "inference.py"]
\* A serial pipeline that applies the XGBoost model before the featurizer.
pipeline_model_XGBoostFirst == [models |-> <<xgboost_model, sklearn_model>>]

pipeline_model == [models |-> <<sklearn_model, xgboost_model>>]

\* Repack steps named after the step collection instead of the model.
RepackName_AfterCollection(m) == "RegisterModel-" \o m.name \o "-RepackModel"

RepackName(m) == m.name \o "-RepackModel"

model_package_group_name == "end-to-end-ml-sm-model-package-group"

\* RegisterModel(..., approval_status=model_approval_status_param, ...)
register_approval_status == ParamRef(model_approval_status_param.name)

\* RegisterModel(name='RegisterModel', model=pipeline_model, ...): one repack
\* step per model that bundles an inference script, then the register step,
\* which takes the repacked models.
register_model_step ==
    { Step(RepackName(pipeline_model.models[i]), "Training",
           {pipeline_model.models[i].model_data}) :
        i \in 1 .. Len(pipeline_model.models) }
    \cup
    { [ Step("RegisterModel", "RegisterModel",
             { ParamRef("deploy_instance_type"), register_approval_status }
             \cup { PropRef(RepackName(pipeline_model.models[i]), "ModelArtifacts") :
                      i \in 1 .. Len(pipeline_model.models) })
        EXCEPT !.models =
            [i \in 1 .. Len(pipeline_model.models) |->
                [model |-> pipeline_model.models[i].name,
                 model_data |-> PropRef(RepackName(pipeline_model.models[i]),
                                        "ModelArtifacts")]] ] }

\* A Pipeline whose parameters list leaves out its last entry.
Pipeline_ShortParameterList(bucket) ==
    [name |-> "end-to-end-ml-sagemaker-pipeline",
     parameters |-> SubSeq(PipelineParameters(bucket), 1,
                           Len(PipelineParameters(bucket)) - 1),
     steps |-> {processing_step, training_step} \cup register_model_step]

\* Pipeline(name, parameters, steps=[processing_step, training_step,
\* register_model_step]).
Pipeline(bucket) ==
    [name |-> "end-to-end-ml-sagemaker-pipeline",
     parameters |-> PipelineParameters(bucket),
     steps |-> {processing_step, training_step} \cup register_model_step]

NoPipeline == [name |-> "", parameters |-> <<>>, steps |-> {}]

StepNames(def) == { st.name : st \in def.steps }
StepNamed(def, n) == CHOOSE st \in def.steps : st.name = n

\* The steps a step depends on: those whose properties it reads.
DependsOn(st) == { r.name : r \in { r \in st.refs : r.kind = "prop" } }

ParameterNames(def) == { def.parameters[i].name : i \in 1 .. Len(def.parameters) }
ParameterNamed(def, n) ==
    def.parameters[CHOOSE i \in 1 .. Len(def.parameters) : def.parameters[i].name = n]

\* A start that runs every execution with the declared defaults.
ResolveParameters_DefaultsOnly(def, passed) ==
    [n \in ParameterNames(def) |-> ParameterNamed(def, n).default_value]

\* The values an execution runs with: what was passed to start, the declared
\* default for every parameter that was not.
ResolveParameters(def, passed) ==
    [n \in ParameterNames(def) |->
        IF n \in DOMAIN passed THEN passed[n] ELSE ParameterNamed(def, n).default_value]

MaxPassed == 1

\* Another value of the parameter's type.
OtherValue(param) ==
    IF param.type = "Integer" THEN param.default_value + 1
    ELSE param.default_value \o "-other"

\* What pipeline.start can be given: values for at most MaxPassed parameters.
StartArguments(def) ==
    UNION { [K -> {"default", "other"}] :
              K \in { K \in SUBSET ParameterNames(def) : Cardinality(K) <= MaxPassed } }
PassedValues(def, choice) ==
    [n \in DOMAIN choice |->
        IF choice[n] = "default" THEN ParameterNamed(def, n).default_value
        ELSE OtherValue(ParameterNamed(def, n))]

NoParams == [n \in {} |-> ""]

\* The registry's entry for a model package: its status, the containers of
\* its inference specification in the order they are applied, and the
\* execution that registered it.
RegisteredPackage(arn, status, containers, by) ==
    [arn |-> arn, approval_status |-> status, registered_as |-> status,
     containers |-> containers, registered_by |-> by]

PackageArn(version) ==
    "arn:aws:sagemaker:model-package/" \o model_package_group_name \o "/"
        \o ToString(version)

PackagesWithArn(arn) == { p \in registry : p.arn = arn }

\* The notebook's execution, and the versions the model package group may
\* hold from earlier executions of the pipeline when the notebook starts.
ThisExecution == "execution"
EarlierRegistries ==
    { {},
      { RegisteredPackage(PackageArn(1), "Approved",
                          <<[model |-> "earlier-model",
                             model_data |-> PropRef("earlier-step", "ModelArtifacts")]>>,
                          "earlier-execution") } }

\* sm_client.update_model_package(..., ModelApprovalStatus="PendingManualApproval")
update_model_package_status_Pending == "PendingManualApproval"

\* sm_client.update_model_package(..., ModelApprovalStatus="Approved")
update_model_package_status == "Approved"

PipeInit ==
    /\ nb_pc = "new"
    /\ bucket_name = ""
    /\ pipeline = NoPipeline
    /\ pipe_def = NoPipeline
    /\ passed_params = NoParams
    /\ exec_params = NoParams
    /\ exec_status = "none"
    /\ step_status = [n \in {} |-> ""]
    /\ step_attempts = [n \in {} |-> 0]
    /\ step_metadata = [n \in {} |-> ""]
    /\ registry \in EarlierRegistries
    /\ model_package_arn = ""
    /\ endpoint_name = ""
    /\ predict_calls = <<>>
    /\ endpoints = {}
    /\ nb_experiment_name = Undefined

execVars == <<passed_params, exec_params, exec_status, step_status, step_attempts,
              step_metadata>>
flowVars == <<model_package_arn, endpoint_name, predict_calls>>

\* %store -r experiment_name; print(experiment_name): the print raises a
\* NameError when nothing was stored, and the name stays unbound.
RestoreExperimentName ==
    /\ nb_pc = "new"
    /\ nb_experiment_name' = store_restore(stored, "experiment_name")
    /\ nb_pc' = "restored"
    /\ UNCHANGED <<bucket_name, pipeline, pipe_def, execVars, registry, flowVars>>
    /\ UNCHANGED <<lambdaVars, netVars, endpoints, m3Vars, sharedVars>>

\* The notebook's definition cells: session, parameters, steps, Pipeline(...).
DefinePipeline ==
    /\ nb_pc = "restored"
    /\ \E b \in Buckets :
         /\ bucket_name' = b
         /\ pipeline' = Pipeline(b)
    /\ nb_pc' = "defined"
    /\ UNCHANGED <<pipe_def, execVars, registry, flowVars>>
    /\ UNCHANGED <<lambdaVars, netVars, endpoints, m3Vars, sharedVars, nb_experiment_name>>

\* pipeline.upsert(role_arn=role)
Upsert ==
    /\ nb_pc = "defined"
    /\ pipe_def' = pipeline
    /\ nb_pc' = "upserted"
    /\ UNCHANGED <<bucket_name, pipeline, execVars, registry, flowVars>>
    /\ UNCHANGED <<lambdaVars, netVars, endpoints, m3Vars, sharedVars, nb_experiment_name>>

\* with Run(experiment_name=experiment_name, run_name=...) as run:
\*     execution = pipeline.start(parameters=passed)
\* An unbound experiment_name raises a NameError before the run is entered.
Start(passed) ==
    /\ nb_pc = "upserted"
    /\ \/ /\ nb_experiment_name = Undefined
          /\ nb_pc' = "error"
          /\ UNCHANGED <<execVars, runs>>
       \/ /\ nb_experiment_name # Undefined
          /\ \E t \in Times :
               runs' = runs \cup
                   {Run(nb_experiment_name, "pipeline-" \o strftime("%H-%M-%S", t))}
          /\ passed_params' = passed
          /\ exec_params' = ResolveParameters(pipe_def, passed)
          /\ exec_status' = "Executing"
          /\ step_status' = [n \in StepNames(pipe_def) |-> "NotStarted"]
          /\ step_attempts' = [n \in StepNames(pipe_def) |-> 0]
          /\ step_metadata' = [n \in StepNames(pipe_def) |-> ""]
          /\ nb_pc' = "started"
    /\ UNCHANGED <<bucket_name, pipeline, pipe_def, registry, flowVars>>
    /\ UNCHANGED <<lambdaVars, netVars, endpoints, m3Vars, s3_objects, stored,
                   nb_experiment_name>>

\* A start of the pipeline with any of the arguments pipeline.start accepts.
StartExecution ==
    /\ nb_pc = "upserted"
    /\ \E choice \in StartArguments(pipe_def) : Start(PassedValues(pipe_def, choice))

\* The notebook's own call: parameters={'train_test_split_ratio': '0.2'}.
start_parameters == [n \in {"train_test_split_ratio"} |-> "0.2"]

NotebookStart == Start(start_parameters)

\* The service starts a step once every step it depends on has succeeded.
StepStart ==
    /\ exec_status = "Executing"
    /\ \A n \in DOMAIN step_status : step_status[n] # "Failed"
    /\ \E n \in DOMAIN step_status :
         /\ step_status[n] = "NotStarted"
         /\ \A d \in DependsOn(StepNamed(pipe_def, n)) : step_status[d] = "Succeeded"
         /\ step_status' = [step_status EXCEPT ![n] = "Executing"]
         /\ step_attempts' = [step_attempts EXCEPT ![n] = @ + 1]
    /\ UNCHANGED <<nb_pc, bucket_name, pipeline, pipe_def, passed_params, exec_params,
                   exec_status, step_metadata, registry, flowVars>>
    /\ UNCHANGED <<lambdaVars, netVars, endpoints, m3Vars, sharedVars, nb_experiment_name>>

\* A step ends successfully; the register step has then added a model package
\* to the registry, with the approval status the execution runs with.
StepSucceed ==
    /\ exec_status = "Executing"
    /\ \E n \in DOMAIN step_status :
         /\ step_status[n] = "Executing"
         /\ step_status' = [step_status EXCEPT ![n] = "Succeeded"]
         /\ IF StepNamed(pipe_def, n).type = "RegisterModel"
            THEN LET arn == PackageArn(Cardinality(registry) + 1)
                 IN  /\ registry' = registry \cup
                           {RegisteredPackage(
                               arn, exec_params[register_approval_status.name],
                               StepNamed(pipe_def, n).models, ThisExecution)}
                     /\ step_metadata' = [step_metadata EXCEPT ![n] = arn]
            ELSE UNCHANGED <<registry, step_metadata>>
    /\ UNCHANGED <<nb_pc, bucket_name, pipeline, pipe_def, passed_params, exec_params,
                   exec_status, step_attempts, flowVars>>
    /\ UNCHANGED <<lambdaVars, netVars, endpoints, m3Vars, sharedVars, nb_experiment_name>>

StepFail ==
    /\ exec_status = "Executing"
    /\ \E n \in DOMAIN step_status :
         /\ step_status[n] = "Executing"
         /\ step_status' = [step_status EXCEPT ![n] = "Failed"]
    /\ UNCHANGED <<nb_pc, bucket_name, pipeline, pipe_def, passed_params, exec_params,
                   exec_status, step_attempts, step_metadata, registry, flowVars>>
    /\ UNCHANGED <<lambdaVars, netVars, endpoints, m3Vars, sharedVars, nb_experiment_name>>

\* The execution ends when nothing runs and nothing more can start.
ExecutionEnd ==
    /\ exec_status = "Executing"
    /\ \A n \in DOMAIN step_status : step_status[n] # "Executing"
    /\ \/ /\ \A n \in DOMAIN step_status : step_status[n] = "Succeeded"
          /\ exec_status' = "Succeeded"
       \/ /\ \E n \in DOMAIN step_status : step_status[n] = "Failed"
          /\ exec_status' = "Failed"
    /\ UNCHANGED <<nb_pc, bucket_name, pipeline, pipe_def, passed_params, exec_params,
                   step_status, step_attempts, step_metadata, registry, flowVars>>
    /\ UNCHANGED <<lambdaVars, netVars, endpoints, m3Vars, sharedVars, nb_experiment_name>>

\* execution.wait(): returns once the execution has ended.
Wait ==
    /\ nb_pc = "started"
    /\ exec_status \in {"Succeeded", "Failed"}
    /\ nb_pc' = "waited"
    /\ UNCHANGED <<bucket_name, pipeline, pipe_def, execVars, registry, flowVars>>
    /\ UNCHANGED <<lambdaVars, netVars, endpoints, m3Vars, sharedVars, nb_experiment_name>>

\* s['StepName'].startswith('RegisterModel'), over the names steps can have:
\* the prefix followed by nothing or by the tail of a name the SDK forms.
StepNameTails ==
    {""} \cup { "-" \o pipeline_model.models[i].name \o "-RepackModel" :
                  i \in 1 .. Len(pipeline_model.models) }
StartsWithRegisterModel(n) == \E tail \in StepNameTails : n = "RegisterModel" \o tail

\* execution.list_steps() lists the steps the execution has started; the
\* notebook takes the first whose name starts with 'RegisterModel' and the
\* ARN in its metadata, and stops with an exception when there is no such
\* step (StopIteration) or the step taken has no such metadata (KeyError).
ReadArn ==
    /\ nb_pc = "waited"
    /\ LET listed == { n \in DOMAIN step_status : step_status[n] # "NotStarted" }
           found == { n \in listed : StartsWithRegisterModel(n) }
       IN  IF found = {}
           THEN /\ nb_pc' = "error"
                /\ UNCHANGED model_package_arn
           ELSE \E n \in found :
                  IF step_metadata[n] # ""
                  THEN /\ model_package_arn' = step_metadata[n]
                       /\ nb_pc' = "arn_read"
                  ELSE /\ nb_pc' = "error"
                       /\ UNCHANGED model_package_arn
    /\ UNCHANGED <<bucket_name, pipeline, pipe_def, execVars, registry, endpoint_name,
                   predict_calls>>
    /\ UNCHANGED <<lambdaVars, netVars, endpoints, m3Vars, sharedVars, nb_experiment_name>>

\* sm_client.describe_model_package(ModelPackageName=model_package_arn)
Describe ==
    /\ nb_pc = "arn_read"
    /\ nb_pc' = IF PackagesWithArn(model_package_arn) # {} THEN "described" ELSE "error"
    /\ UNCHANGED <<bucket_name, pipeline, pipe_def, execVars, registry, flowVars>>
    /\ UNCHANGED <<lambdaVars, netVars, endpoints, m3Vars, sharedVars, nb_experiment_name>>

\* sm_client.update_model_package(ModelPackageArn=model_package_arn,
\*                                ModelApprovalStatus="Approved")
Approve ==
    /\ nb_pc = "described"
    /\ registry' = { IF p.arn = model_package_arn
                     THEN [p EXCEPT !.approval_status = update_model_package_status]
                     ELSE p : p \in registry }
    /\ nb_pc' = "approved"
    /\ UNCHANGED <<bucket_name, pipeline, pipe_def, execVars, flowVars>>
    /\ UNCHANGED <<lambdaVars, netVars, endpoints, m3Vars, sharedVars, nb_experiment_name>>

\* model_package = ModelPackage(model_package_arn=model_package_arn, role=role)
\* model_package.deploy(..., endpoint_name=endpoint_name)
Deploy ==
    /\ nb_pc = "approved"
    /\ \E t \in Times, p \in PackagesWithArn(model_package_arn) :
         /\ endpoint_name' = EndpointNameAt(t)
         /\ endpoints' = endpoints \cup
                {Endpoint(EndpointNameAt(t), p.arn, p.approval_status)}
    /\ nb_pc' = "deployed"
    /\ UNCHANGED <<bucket_name, pipeline, pipe_def, execVars, registry,
                   model_package_arn, predict_calls>>
    /\ UNCHANGED <<lambdaVars, netVars, m3Vars, sharedVars, nb_experiment_name>>

\* predictor = Predictor(endpoint_name=endpoint_name, ...)
\* predictor.predict(payload)
Predict ==
    /\ nb_pc = "deployed"
    /\ predict_calls' = Append(predict_calls, endpoint_name)
    /\ nb_pc' = IF EndpointsNamed(endpoint_name) # {} THEN "predicted" ELSE "error"
    /\ UNCHANGED <<bucket_name, pipeline, pipe_def, execVars, registry,
                   model_package_arn, endpoint_name>>
    /\ UNCHANGED <<lambdaVars, netVars, endpoints, m3Vars, sharedVars, nb_experiment_name>>

\* predictor.delete_endpoint()
DeleteEndpoint ==
    /\ nb_pc = "predicted"
    /\ endpoints' = endpoints \ EndpointsNamed(endpoint_name)
    /\ nb_pc' = "done"
    /\ UNCHANGED <<bucket_name, pipeline, pipe_def, execVars, registry, flowVars>>
    /\ UNCHANGED <<lambdaVars, netVars, m3Vars, sharedVars, nb_experiment_name>>

(***************************************************************************)
(* Specifications.                                                         *)
(***************************************************************************)
Init == LambdaInit /\ NetInit /\ PipeInit /\ Mod3Fresh /\ stored = NoStore

\* Module 8 opened in a new session: %store holds what an earlier session of
\* module 3 left, if anything.
InitLater == LambdaInit /\ NetInit /\ PipeInit /\ Mod3Fresh /\ stored \in EarlierStores

Next == ReceiveEvent \/ RunHandler \/ DeployModel

Spec == Init /\ [][Next]_vars

NetNext == CreateStack \/ StartResource \/ FinishResource \/ CompleteStack

NetSpec == Init /\ [][NetNext]_vars

PipeNext ==
    \/ RestoreExperimentName
    \/ DefinePipeline
    \/ Upsert
    \/ StartExecution
    \/ StepStart
    \/ StepSucceed
    \/ StepFail
    \/ ExecutionEnd
    \/ Wait
    \/ ReadArn
    \/ Describe
    \/ Approve
    \/ Deploy
    \/ Predict
    \/ DeleteEndpoint

PipeSpec == InitLater /\ [][PipeNext]_vars

\* The notebook run cell by cell, with its own start call.  The service
\* starts every step that may start, every running job ends, and an execution
\* in which nothing runs or can start is ended.
FlowNext ==
    \/ RestoreExperimentName
    \/ DefinePipeline
    \/ Upsert
    \/ NotebookStart
    \/ StepStart
    \/ StepSucceed
    \/ StepFail
    \/ ExecutionEnd
    \/ Wait
    \/ ReadArn
    \/ Describe
    \/ Approve
    \/ Deploy
    \/ Predict
    \/ DeleteEndpoint

FlowSpec ==
    /\ InitLater
    /\ [][FlowNext]_vars
    /\ WF_vars(StepStart)
    /\ WF_vars(StepSucceed \/ StepFail)
    /\ WF_vars(ExecutionEnd)

\* Modules 3 and 8 run in one account, each notebook cell by cell, from a
\* state in which nothing is uploaded or stored.
WorkshopNext == Mod3Next \/ FlowNext

WorkshopSpec == Init /\ [][WorkshopNext]_vars

(***************************************************************************)
(* Claims about the Lambda function (checked under Spec).                  *)
(***************************************************************************)
Handled == lpc = "done"
HasMethod(m) == "httpMethod" \in DOMAIN event /\ event["httpMethod"] = m
ViaGateway == "requestContext" \in DOMAIN event

CorsHeaderNames == {"Access-Control-Allow-Origin", "Access-Control-Allow-Credentials",
                    "Access-Control-Allow-Headers"}

\* C1: an event with 'requestContext' and httpMethod 'OPTIONS' is answered with
\* statusCode 200, an empty body and the CORS headers.
C1_OptionsAnswered ==
    (Handled /\ ViaGateway /\ HasMethod("OPTIONS")) =>
        /\ result.kind = "return"
        /\ result.resp.statusCode = 200
        /\ result.resp.body = ""
        /\ CorsHeaderNames \subseteq DOMAIN result.resp.headers

\* C2: an event with 'requestContext' and a method other than OPTIONS and POST
\* is answered with statusCode 405.
C2_OtherMethod405 ==
    (Handled /\ ViaGateway /\ "httpMethod" \in DOMAIN event
             /\ event["httpMethod"] \notin {"OPTIONS", "POST"}) =>
        /\ result.kind = "return"
        /\ result.resp.statusCode = 405

ExpectedCall ==
    [EndpointName |-> "end-to-end-ml-sm-pipeline-endpoint-XXXXXXXXXX",
     ContentType |-> "text/csv",
     Body |-> event["body"]]

\* C3 (as stated): every POST event leads to exactly one endpoint invocation,
\* with Body = event['body'] and ContentType 'text/csv'.
C3_EveryPostInvokesOnce ==
    (Handled /\ HasMethod("POST")) =>
        /\ Len(invocations) = 1
        /\ "body" \in DOMAIN event
        /\ invocations[1] = ExpectedCall

\* C3 (amended): every POST event that contains 'requestContext' and 'body'
\* leads to exactly one invocation of ENDPOINT_NAME, with Body = event['body']
\* unchanged and ContentType 'text/csv', whatever content type the client sent.
C3_GatewayPostInvokesOnce ==
    (Handled /\ ViaGateway /\ HasMethod("POST") /\ "body" \in DOMAIN event) =>
        /\ Len(invocations) = 1
        /\ invocations[1] = ExpectedCall

C3_Witness ==
    /\ Handled /\ ViaGateway /\ HasMethod("POST") /\ "body" \in DOMAIN event
    /\ event["headers"] = "text/plain"
    /\ event["body"] = "L, 298.4, 308.2, 1582, 70.7, 216"
    /\ Len(invocations) = 1
    /\ invocations[1].ContentType = "text/csv"

\* The endpoint was invoked, answered, and its answer is a JSON object whose
\* 'predictions' is an array of at least one element.
AnswerHasPrediction ==
    /\ Handled /\ HasMethod("POST") /\ invocations # <<>>
    /\ endpoint_answer.ok
    /\ endpoint_answer.Body.j = "object"
    /\ "predictions" \in DOMAIN endpoint_answer.Body.c
    /\ endpoint_answer.Body.c["predictions"].j = "array"
    /\ Len(endpoint_answer.Body.c["predictions"].c) >= 1

FirstPrediction == endpoint_answer.Body.c["predictions"].c[1]

FirstPredictionHasScore ==
    /\ FirstPrediction.j = "object"
    /\ "score" \in DOMAIN FirstPrediction.c

\* The string form of a JSON scalar once parsed, written out per kind.
ScoreText(d) ==
    CASE d.j = "string" -> d.c
      [] d.j = "int" -> ToString(d.c)
      [] d.j = "null" -> "None"
      [] d.j = "real" ->
            IF d.c = 0 THEN "0.0"
            ELSE IF d.c = 12 THEN "0.012"
            ELSE IF d.c = 500 THEN "0.5"
            ELSE IF d.c = 1000 THEN "1.0"
            ELSE Str(PyFloat(d.c))

ScoreResponse(d) ==
    /\ result.kind = "return"
    /\ result.resp.statusCode = 200
    /\ "Content-Type" \in DOMAIN result.resp.headers
    /\ result.resp.headers["Content-Type"] = "application/json"
    /\ result.resp.body = ScoreText(d)

\* C4 (as stated): a POST whose invocation succeeds with a result holding at
\* least one prediction is answered 200, Content-Type application/json, with
\* the string form of the first prediction's score as body.
C4_AnyPredictionAnswered ==
    AnswerHasPrediction =>
        /\ FirstPredictionHasScore
        /\ ScoreResponse(FirstPrediction.c["score"])

\* C4 (amended): the same, for results whose first prediction is an object
\* that has a 'score'.
C4_ScoredPredictionAnswered ==
    (AnswerHasPrediction /\ FirstPredictionHasScore) =>
        ScoreResponse(FirstPrediction.c["score"])

C4_Witness ==
    /\ AnswerHasPrediction /\ FirstPredictionHasScore
    /\ Len(endpoint_answer.Body.c["predictions"].c) = 2
    /\ FirstPrediction.c["score"] = JReal(12)
    /\ endpoint_answer.Body.c["predictions"].c[2] = JObject([k \in {"score"} |-> JReal(500)])
    /\ result.kind = "return"
    /\ result.resp.body = "0.012"

\* C5: every response lambda_handler returns carries Content-Type
\* application/json and the three CORS headers '*', 'true', '*'.
C5_ResponseHeaders ==
    result.kind = "return" =>
        /\ DOMAIN result.resp.headers =
             {"Content-Type"} \cup CorsHeaderNames
        /\ result.resp.headers["Content-Type"] = "application/json"
        /\ result.resp.headers["Access-Control-Allow-Origin"] = "*"
        /\ result.resp.headers["Access-Control-Allow-Credentials"] = "true"
        /\ result.resp.headers["Access-Control-Allow-Headers"] = "*"

C5_Witness ==
    /\ Handled /\ ViaGateway /\ HasMethod("POST")
    /\ result.kind = "return"
    /\ result.resp.statusCode = 200

\* C14: the endpoint is invoked only when a POST is handled: for an OPTIONS
\* event, an event with any other method (or none), and an event without
\* 'requestContext', no invocation is made.
C14_InvokedOnlyForPost ==
    (Handled /\ (~ViaGateway \/ ~HasMethod("POST"))) => Len(invocations) = 0

C14_Witness ==
    /\ Handled /\ ~ViaGateway /\ HasMethod("POST") /\ "body" \in DOMAIN event
    /\ Len(invocations) = 0
    /\ result.kind = "none"

\* A POST request with a body: an event from the gateway with method POST.
PostWithBody == ViaGateway /\ HasMethod("POST") /\ "body" \in DOMAIN event

\* C15: a POST body is not validated: whatever the body of a POST request is
\* (empty, too few fields, spaces after the commas), it is forwarded to the
\* endpoint as it is, and the handler returns no 4xx response.
C15_BodyNotValidated ==
    (Handled /\ PostWithBody) =>
        /\ Len(invocations) = 1
        /\ invocations[1].Body = event["body"]
        /\ result.kind = "return" => result.resp.statusCode \notin 400 .. 499

C15_Witness ==
    /\ Handled /\ PostWithBody
    /\ event["body"] = ""
    /\ Len(invocations) = 1
    /\ invocations[1].Body = ""
    /\ result.kind = "return"

InvocationFailed ==
    Handled /\ HasMethod("POST") /\ invocations # <<>> /\ ~endpoint_answer.ok

\* C16: when the endpoint invocation of a POST fails, the handler raises the
\* endpoint's error, returns no response, and has made one invocation only.
C16_FailurePropagates ==
    InvocationFailed =>
        /\ result.kind = "raise"
        /\ result.exc = endpoint_answer.error
        /\ result.resp = NoResponse
        /\ Len(invocations) = 1

C16_Witness ==
    /\ InvocationFailed
    /\ endpoint_answer.error = "ModelError"
    /\ result.kind = "raise"
    /\ result.exc = "ModelError"

Predictions == endpoint_answer.Body.c["predictions"].c

HasScore(d) == d.j = "object" /\ "score" \in DOMAIN d.c

\* C17: when the result of a POST holds several predictions, a returned
\* response has the string form of the first prediction's score as its whole
\* body: no other prediction's score and no other field of the result is in
\* it, and the response has no field besides statusCode, body and headers.
C17_FirstScoreOnly ==
    (AnswerHasPrediction /\ Len(Predictions) >= 2 /\ result.kind = "return") =>
        /\ FirstPredictionHasScore
        /\ result.resp.body = ScoreText(FirstPrediction.c["score"])
        /\ DOMAIN result.resp = {"statusCode", "body", "headers"}
        /\ \A i \in 2 .. Len(Predictions) :
             (HasScore(Predictions[i])
              /\ Predictions[i].c["score"] # FirstPrediction.c["score"])
             => result.resp.body # ScoreText(Predictions[i].c["score"])
        /\ \A k \in DOMAIN endpoint_answer.Body.c \ {"predictions"} :
             endpoint_answer.Body.c[k].j = "string"
             => result.resp.body # endpoint_answer.Body.c[k].c

C17_Witness ==
    /\ AnswerHasPrediction /\ Len(Predictions) = 2
    /\ "model" \in DOMAIN endpoint_answer.Body.c
    /\ FirstPrediction = JObject([k \in {"score"} |-> JReal(500)])
    /\ Predictions[2] = JObject([k \in {"score"} |-> JInt(1)])
    /\ result.kind = "return"
    /\ result.resp.body = "0.5"

\* C24: an event without 'requestContext' gets no response object: the
\* handler returns None, whatever httpMethod and body the event has, and
\* invokes nothing.
C24_NoRequestContextNone ==
    (Handled /\ ~ViaGateway) =>
        /\ result = ReturnedNone
        /\ result.resp = NoResponse
        /\ invocations = <<>>

C24_Witness ==
    /\ Handled /\ ~ViaGateway
    /\ HasMethod("OPTIONS")
    /\ "body" \in DOMAIN event
    /\ result = ReturnedNone

AnswerParsed ==
    /\ Handled /\ ViaGateway /\ HasMethod("POST") /\ invocations # <<>>
    /\ endpoint_answer.ok

NoPredictionsKey ==
    /\ endpoint_answer.Body.j = "object"
    /\ "predictions" \notin DOMAIN endpoint_answer.Body.c

EmptyPredictions ==
    /\ endpoint_answer.Body.j = "object"
    /\ "predictions" \in DOMAIN endpoint_answer.Body.c
    /\ endpoint_answer.Body.c["predictions"] = JArray(<<>>)

\* C25: when the result of a POST's invocation has no 'predictions' key, an
\* empty predictions list or a first prediction without 'score', the handler
\* raises and returns no response; every response it returns has statusCode
\* 200 and, as body, the string form of the value under 'score' of the first
\* prediction.
C25_BadResultRaises ==
    /\ (AnswerParsed /\ (\/ NoPredictionsKey
                         \/ EmptyPredictions
                         \/ (AnswerHasPrediction /\ ~FirstPredictionHasScore)))
         => /\ result.kind = "raise"
            /\ result.exc \in {"KeyError", "IndexError", "TypeError"}
            /\ result.resp = NoResponse
    /\ (Handled /\ result.kind = "return")
         => /\ result.resp.statusCode = 200
            /\ AnswerHasPrediction /\ FirstPredictionHasScore
            /\ result.resp.body = ScoreText(FirstPrediction.c["score"])

C25_Witness ==
    /\ AnswerParsed
    /\ AnswerHasPrediction /\ ~FirstPredictionHasScore
    /\ FirstPrediction = JObject([k \in {"label"} |-> JInt(0)])
    /\ result = Raised("KeyError")

NamedEndpointInService == EndpointsNamed(ENDPOINT_NAME) # {}

StackComplete == net_stack_status = "CREATE_COMPLETE"
DefaultRoute == <<0, 0, 0, 0, 0>>

\* C6: the VPC CIDR is 10.0.0.0/16, every subnet CIDR is a /24 inside the CIDR
\* of its VPC, and the subnet CIDRs of one template are pairwise disjoint.
C6_SubnetCidrs ==
    net_template # "none" =>
        LET R == ResourcesOf(net_template)
            vpcs == { r \in DOMAIN R : R[r].Type = "AWS::EC2::VPC" }
            subnets == { r \in DOMAIN R : R[r].Type = "AWS::EC2::Subnet" }
            cidr(r) == R[r].Properties.CidrBlock.val
        IN  /\ \A v \in vpcs : cidr(v) = <<10, 0, 0, 0, 16>>
            /\ \A x \in subnets :
                 /\ cidr(x)[5] = 24
                 /\ R[x].Properties.VpcId.val \in vpcs
                 /\ CidrWithin(cidr(x), cidr(R[x].Properties.VpcId.val))
            /\ \A x, y \in subnets : x # y => CidrDisjoint(cidr(x), cidr(y))

C6_Witness ==
    /\ net_template = "vpc_mode"
    /\ {"SageMakerPrivateSubnet1", "SageMakerPrivateSubnet2", "SageMakerPublicSubnet1"}
         \subseteq Existing

PrivateSubnets == {"SageMakerPrivateSubnet1", "SageMakerPrivateSubnet2"}
PublicSubnet == "SageMakerPublicSubnet1"

RouteTo(r, key, type) ==
    /\ Props(r).DestinationCidrBlock.val = DefaultRoute
    /\ key \in DOMAIN Props(r)
    /\ ResourcesOf(net_template)[Props(r)[key].val].Type = type

\* C7: in the VPC-mode stack no private subnet's route table ever holds a
\* route to the Internet gateway; once the stack is complete every private
\* subnet's route table sends 0.0.0.0/0 to the NAT gateway, the NAT gateway is
\* in the public subnet, and the public subnet's route table sends 0.0.0.0/0
\* to the Internet gateway attached to the same VPC.
C7_NatPath ==
    net_template = "vpc_mode" =>
        /\ \A x \in PrivateSubnets : \A rt \in RouteTablesOf(x) :
             \A r \in RoutesIn(rt) : "GatewayId" \notin DOMAIN Props(r)
        /\ StackComplete =>
             /\ \A x \in PrivateSubnets :
                  /\ RouteTablesOf(x) # {}
                  /\ \A rt \in RouteTablesOf(x) :
                       \E r \in RoutesIn(rt) :
                           RouteTo(r, "NatGatewayId", "AWS::EC2::NatGateway")
             /\ \A n \in ExistingOfType("AWS::EC2::NatGateway") :
                  Props(n).SubnetId.val = PublicSubnet
             /\ ExistingOfType("AWS::EC2::NatGateway") # {}
             /\ RouteTablesOf(PublicSubnet) # {}
             /\ \A rt \in RouteTablesOf(PublicSubnet) :
                  \E r \in RoutesIn(rt) :
                      /\ RouteTo(r, "GatewayId", "AWS::EC2::InternetGateway")
                      /\ \E a \in ExistingOfType("AWS::EC2::VPCGatewayAttachment") :
                           /\ Props(a).InternetGatewayId.val = Props(r).GatewayId.val
                           /\ Props(a).VpcId.val = Props(PublicSubnet).VpcId.val

C7_Witness ==
    /\ net_template = "vpc_mode"
    /\ StackComplete
    /\ "SageMakerPrivateRoute" \in RoutesIn("SageMakerPrivateRouteTable")

ExportOf(o) == CHOOSE e \in net_exports : e.Output = o
ExportedOutputs == { e.Output : e \in net_exports }

ExportedSubnetIn(o, vpc, azIndex) ==
    /\ ResourcesOf(net_template)[ExportOf(o).Value].Type = "AWS::EC2::Subnet"
    /\ Props(ExportOf(o).Value).VpcId.val = vpc
    /\ Props(ExportOf(o).Value).AvailabilityZone = SelectAZ(azIndex)

\* C8: a completed stack of either template exports SageMakerVPC,
\* SageMakerSubnet1 and SageMakerSubnet2 as '<stack>-VPC', '<stack>-Subnet1'
\* and '<stack>-Subnet2'; the two exported subnets are in the exported VPC and
\* in the availability zones of index 0 and 1, which differ; the VPC-mode
\* stack also exports the security group as '<stack>-SecurityGroup', the
\* direct-mode stack nothing else.
C8_Outputs ==
    StackComplete =>
        /\ {"SageMakerVPC", "SageMakerSubnet1", "SageMakerSubnet2"} \subseteq ExportedOutputs
        /\ \A e, f \in net_exports : e.Output = f.Output => e = f
        /\ ExportOf("SageMakerVPC").Name = net_stack_name \o "-VPC"
        /\ ExportOf("SageMakerSubnet1").Name = net_stack_name \o "-Subnet1"
        /\ ExportOf("SageMakerSubnet2").Name = net_stack_name \o "-Subnet2"
        /\ ResourcesOf(net_template)[ExportOf("SageMakerVPC").Value].Type = "AWS::EC2::VPC"
        /\ ExportedSubnetIn("SageMakerSubnet1", ExportOf("SageMakerVPC").Value, 0)
        /\ ExportedSubnetIn("SageMakerSubnet2", ExportOf("SageMakerVPC").Value, 1)
        /\ ExportOf("SageMakerSubnet1").Value # ExportOf("SageMakerSubnet2").Value
        /\ Resolve(SelectAZ(0)) # Resolve(SelectAZ(1))
        /\ IF net_template = "vpc_mode"
           THEN /\ ExportedOutputs = {"SageMakerVPC", "SageMakerSubnet1",
                                      "SageMakerSubnet2", "SageMakerSecurityGroup"}
                /\ ExportOf("SageMakerSecurityGroup").Name =
                     net_stack_name \o "-SecurityGroup"
                /\ ResourcesOf(net_template)[ExportOf("SageMakerSecurityGroup").Value].Type
                     = "AWS::EC2::SecurityGroup"
           ELSE ExportedOutputs = {"SageMakerVPC", "SageMakerSubnet1", "SageMakerSubnet2"}

C8_Witness ==
    /\ StackComplete
    /\ net_template = "direct_mode"
    /\ net_stack_name = "ws"
    /\ [Output |-> "SageMakerSubnet2", Name |-> "ws-Subnet2",
        Value |-> "SageMakerPublicSubnet2"] \in net_exports

CreationBegun(r) == r \in DOMAIN net_status /\ net_status[r] # "none"
Created(r) == r \in DOMAIN net_status /\ net_status[r] = "complete"

\* C18: in the VPC-mode stack the creation of the NAT gateway and of its
\* elastic IP begins only once the Internet gateway attachment exists, and the
\* creation of the private default route only once the NAT gateway exists.
C18_NatCreationOrder ==
    net_template = "vpc_mode" =>
        /\ CreationBegun("SageMakerNATEIP") => Created("SageMakerIGWAttachment")
        /\ CreationBegun("SageMakerNATGateway") =>
             /\ Created("SageMakerIGWAttachment")
             /\ Created("SageMakerNATEIP")
        /\ CreationBegun("SageMakerPrivateRoute") => Created("SageMakerNATGateway")
        /\ VpcModeResources["SageMakerNATGateway"].Properties.AllocationId.val
             = "SageMakerNATEIP"
        /\ VpcModeResources["SageMakerPrivateRoute"].Properties.NatGatewayId.val
             = "SageMakerNATGateway"

C18_Witness ==
    /\ net_template = "vpc_mode"
    /\ net_stack_status = "CREATE_IN_PROGRESS"
    /\ net_status["SageMakerPrivateRoute"] = "in_progress"
    /\ net_status["SageMakerNATGateway"] = "complete"
    /\ net_status["SageMakerSecurityGroup"] = "none"

\* C19: the VPC-mode security group, once created, allows all outbound
\* traffic (protocol -1 to 0.0.0.0/0); every inbound rule it ever has admits
\* members of the same group only, and in the complete stack there is such a
\* rule.
C19_SecurityGroupRules ==
    net_template = "vpc_mode" =>
        \A sg \in ExistingOfType("AWS::EC2::SecurityGroup") :
            /\ [IpProtocol |-> "-1", CidrIp |-> DefaultRoute] \in EgressRules(sg)
            /\ "SecurityGroupIngress" \notin DOMAIN Props(sg)
            /\ \A rule \in IngressRules(sg) :
                 /\ rule.SourceGroup = sg
                 /\ rule.SourceCidr = NoCidr
            /\ StackComplete =>
                 [IpProtocol |-> "-1", SourceGroup |-> sg, SourceCidr |-> NoCidr]
                     \in IngressRules(sg)

C19_Witness ==
    /\ net_template = "vpc_mode"
    /\ Created("SageMakerSecurityGroup")
    /\ Created("SageMakerSecurityGroupSelfIngress")
    /\ Cardinality(IngressRules("SageMakerSecurityGroup")) = 1

\* The resources a resource depends on, directly or through others.
RECURSIVE DependsTransitively(_, _, _)
DependsTransitively(t, r, fuel) ==
    IF fuel = 0 THEN {}
    ELSE DependenciesOf(t, r)
         \cup UNION { DependsTransitively(t, d, fuel - 1) : d \in DependenciesOf(t, r) }

AssociationsOf(subnet) ==
    { a \in ExistingOfType("AWS::EC2::SubnetRouteTableAssociation") :
        Props(a).SubnetId.val = subnet }

DefaultRoutesIn(rt) ==
    { r \in RoutesIn(rt) : Props(r).DestinationCidrBlock.val = DefaultRoute }

\* C28: in each template the references between resources (Ref, GetAtt,
\* DependsOn) stay within the template and form no cycle, and a creation that
\* respects them is never stuck before every resource is created; no subnet
\* ever has more than one route table and no route table more than one default
\* route, and in the complete stack every subnet is associated with exactly
\* one route table, of its own VPC, and every route table has exactly one
\* default route.
C28_AcyclicAndRouted ==
    net_template # "none" =>
        LET R == ResourcesOf(net_template) IN
        /\ \A r \in DOMAIN R :
             /\ DependenciesOf(net_template, r) \subseteq DOMAIN R
             /\ r \notin DependsTransitively(net_template, r, Cardinality(DOMAIN R))
        /\ net_stack_status = "CREATE_IN_PROGRESS" =>
             \/ \A r \in DOMAIN net_status : net_status[r] = "complete"
             \/ \E r \in DOMAIN net_status : net_status[r] = "in_progress"
             \/ \E r \in DOMAIN net_status :
                  /\ net_status[r] = "none"
                  /\ \A d \in DependenciesOf(net_template, r) : net_status[d] = "complete"
        /\ \A x \in ExistingOfType("AWS::EC2::Subnet") :
             /\ Cardinality(AssociationsOf(x)) <= 1
             /\ \A rt \in RouteTablesOf(x) : Props(rt).VpcId.val = Props(x).VpcId.val
        /\ \A rt \in ExistingOfType("AWS::EC2::RouteTable") :
             Cardinality(DefaultRoutesIn(rt)) <= 1
        /\ StackComplete =>
             /\ Existing = DOMAIN R
             /\ \A x \in ExistingOfType("AWS::EC2::Subnet") :
                  Cardinality(AssociationsOf(x)) = 1 /\ Cardinality(RouteTablesOf(x)) = 1
             /\ \A rt \in ExistingOfType("AWS::EC2::RouteTable") :
                  Cardinality(DefaultRoutesIn(rt)) = 1

C28_Witness ==
    /\ StackComplete
    /\ net_template = "vpc_mode"
    /\ Cardinality(ExistingOfType("AWS::EC2::Subnet")) = 3
    /\ Cardinality(ExistingOfType("AWS::EC2::RouteTable")) = 2
    /\ RouteTablesOf("SageMakerPrivateSubnet2") = {"SageMakerPrivateRouteTable"}

(***************************************************************************)
(* Claims about the pipeline (checked under PipeSpec).                     *)
(***************************************************************************)
Started(n) == n \in DOMAIN step_status /\ step_status[n] # "NotStarted"
Completed(n) == n \in DOMAIN step_status /\ step_status[n] = "Succeeded"

ReadsOf(n) == StepNamed(pipe_def, n).refs

\* The steps a step depends on, directly or through other steps.
RECURSIVE Upstream(_, _)
Upstream(n, fuel) ==
    IF fuel = 0 THEN {}
    ELSE LET direct == DependsOn(StepNamed(pipe_def, n))
         IN  direct \cup UNION { Upstream(d, fuel - 1) : d \in direct }

\* C9: Training starts only after Processing has completed and reads its
\* 'train_data' and 'val_data' outputs; RegisterModel starts only after both
\* Processing and Training have completed and takes Processing's 'model'
\* output and Training's model artifacts; the step dependencies form a DAG.
C9_StepOrder ==
    exec_status # "none" =>
        /\ Started("Training") => Completed("Processing")
        /\ Started("RegisterModel") => Completed("Processing") /\ Completed("Training")
        /\ {PropRef("Processing", "train_data"), PropRef("Processing", "val_data")}
             \subseteq ReadsOf("Training")
        /\ \E a, b \in Upstream("RegisterModel", Cardinality(StepNames(pipe_def))) :
             /\ PropRef("Processing", "model") \in ReadsOf(a)
             /\ PropRef("Training", "ModelArtifacts") \in ReadsOf(b)
        /\ \A st \in pipe_def.steps : DependsOn(st) \subseteq StepNames(pipe_def)
        /\ \A S \in SUBSET StepNames(pipe_def) :
             S # {} => \E n \in S : DependsOn(StepNamed(pipe_def, n)) \cap S = {}

C9_Witness ==
    /\ exec_status = "Executing"
    /\ "RegisterModel" \in DOMAIN step_status
    /\ step_status["RegisterModel"] = "Executing"
    /\ step_status["Training"] = "Succeeded"

DeclaredDefault(n) == ParameterNamed(pipeline, n).default_value

\* C10: in a started execution every declared parameter that was passed to
\* pipeline.start has the passed value and every other one its declared
\* default; with the notebook's call (train_test_split_ratio='0.2' only) all
\* 20 parameters have their declared defaults.
C10_ParameterValues ==
    exec_status # "none" =>
        /\ DOMAIN exec_params = ParameterNames(pipeline)
        /\ \A n \in ParameterNames(pipeline) :
             exec_params[n] = IF n \in DOMAIN passed_params THEN passed_params[n]
                              ELSE DeclaredDefault(n)
        /\ (/\ DOMAIN passed_params = {"train_test_split_ratio"}
            /\ passed_params["train_test_split_ratio"] = "0.2")
           => /\ Cardinality(DOMAIN exec_params) = 20
              /\ \A n \in DOMAIN exec_params : exec_params[n] = DeclaredDefault(n)
              /\ exec_params["train_test_split_ratio"] = "0.2"
              /\ exec_params["processing_instance_count"] = 1
              /\ exec_params["model_approval_status"] = "PendingManualApproval"
              /\ exec_params["raw_data_path"] =
                   "s3://" \o bucket_name \o "/end-to-end-ml/data/raw/"

C10_Witness ==
    /\ nb_pc = "started"
    /\ DOMAIN passed_params = {"train_test_split_ratio"}
    /\ passed_params["train_test_split_ratio"] = "0.2"
    /\ exec_params["eta"] = "0.1"

DefaultsOnly ==
    \A n \in DOMAIN exec_params : exec_params[n] = DeclaredDefault(n)

Pending == "PendingManualApproval"

BeforeApproval == nb_pc \in {"started", "waited", "arn_read", "described"}

\* C11: once an execution started with the default parameter values has
\* completed, the registry holds the model package it registered, registered
\* with approval status PendingManualApproval, and the package keeps that
\* status until the notebook updates it.
C11_RegisteredPending ==
    (exec_status = "Succeeded" /\ DefaultsOnly) =>
        /\ step_metadata["RegisterModel"] # ""
        /\ Cardinality(PackagesWithArn(step_metadata["RegisterModel"])) = 1
        /\ \A p \in PackagesWithArn(step_metadata["RegisterModel"]) :
             /\ p.registered_as = Pending
             /\ BeforeApproval => p.approval_status = Pending

C11_Witness ==
    /\ exec_status = "Succeeded"
    /\ DefaultsOnly
    /\ nb_pc = "waited"
    /\ \E p \in registry : p.approval_status = Pending

FromPackage(e) == e.model_package # ""

\* C12: every endpoint created from a model package was created when the
\* package's status was Approved, never PendingManualApproval; in the
\* notebook's flow (model_approval_status not passed to start) the deployed
\* package was registered as PendingManualApproval and updated to Approved
\* before the deployment.
C12_ApprovalGatesDeployment ==
    /\ \A e \in endpoints :
         FromPackage(e) =>
            /\ e.approval_status = "Approved"
            /\ e.approval_status # Pending
            /\ e.model_package = model_package_arn
    /\ nb_pc \in {"deployed", "predicted", "done"} =>
         /\ PackagesWithArn(model_package_arn) # {}
         /\ \A p \in PackagesWithArn(model_package_arn) :
              /\ p.approval_status = "Approved"
              /\ "model_approval_status" \notin DOMAIN passed_params
                   => p.registered_as = Pending

C12_Witness ==
    /\ nb_pc = "deployed"
    /\ "model_approval_status" \notin DOMAIN passed_params
    /\ \E e \in endpoints :
         /\ FromPackage(e)
         /\ \E p \in PackagesWithArn(e.model_package) :
              p.registered_as = Pending /\ p.approval_status = "Approved"

(***************************************************************************)
(* Claims about the notebook's own run of the pipeline (checked under      *)
(* FlowSpec).                                                              *)
(***************************************************************************)
Failed(n) == n \in DOMAIN step_status /\ step_status[n] = "Failed"

AllStepsSucceeded ==
    /\ exec_status # "none"
    /\ \A n \in DOMAIN step_status : step_status[n] = "Succeeded"

C20_FailureStopsRegistration ==
    (Failed("Processing") \/ Failed("Training")) =>
        /\ step_attempts["RegisterModel"] = 0
        /\ step_status["RegisterModel"] = "NotStarted"
        /\ step_metadata["RegisterModel"] = ""
        /\ \A p \in registry : p.registered_by # ThisExecution

C20_EachStepOnce ==
    /\ \A n \in DOMAIN step_attempts : step_attempts[n] <= 1
    /\ (AllStepsSucceeded \/ exec_status = "Succeeded") =>
         \A n \in {"Processing", "Training", "RegisterModel"} : step_attempts[n] = 1

\* C20: when the Processing or the Training step of an execution has failed,
\* its RegisterModel step is never started and the execution registers no
\* model package; no step is started twice, and when all steps have succeeded
\* each of Processing, Training and RegisterModel has run exactly once and
\* the execution eventually ends as Succeeded.
C20_FailureAndCompletion ==
    /\ [](C20_FailureStopsRegistration /\ C20_EachStepOnce)
    /\ (AllStepsSucceeded ~> exec_status = "Succeeded")

C20_Witness ==
    /\ exec_status = "Failed"
    /\ Failed("Training")
    /\ Completed("Processing")
    /\ step_attempts["Training"] = 1
    /\ nb_pc = "error"


(***************************************************************************)
(* Further claims about the pipeline (checked under PipeSpec).             *)
(***************************************************************************)
RegisteredByExecution == { p \in registry : p.registered_by = ThisExecution }

\* The step properties the model data of a registered container comes from:
\* what the repack step that produced it read.
DataSource(container) == ReadsOf(container.model_data.name)

\* C21: the package an execution registers holds two containers, the
\* featurizer (SKLearn) model first and the XGBoost model second; the first's
\* model data is the repacked 'model' output of the execution's Processing
\* step, the second's the repacked model artifacts of its Training step, and
\* both steps have succeeded in that execution.
C21_SerialModelOrder ==
    \A p \in RegisteredByExecution :
        /\ Len(p.containers) = 2
        /\ p.containers[1].model = "end-to-end-ml-sm-skl-model"
        /\ p.containers[2].model = "end-to-end-ml-sm-xgb-model"
        /\ DataSource(p.containers[1]) = {PropRef("Processing", "model")}
        /\ DataSource(p.containers[2]) = {PropRef("Training", "ModelArtifacts")}
        /\ \A i \in 1 .. 2 : Completed(p.containers[i].model_data.name)
        /\ Completed("Processing") /\ Completed("Training")

C21_Witness ==
    /\ exec_status = "Succeeded"
    /\ Cardinality(registry) = 2
    /\ \E p \in RegisteredByExecution :
         p.containers[2].model_data =
            PropRef("end-to-end-ml-sm-xgb-model-RepackModel", "ModelArtifacts")

\* The parameters the steps of a pipeline read.
UsedParameters(def) ==
    { r.name : r \in { r \in UNION { st.refs : st \in def.steps } : r.kind = "param" } }

\* C27: every parameter a step of the pipeline reads (through its processor,
\* estimator, models or the register step) is in the Pipeline's parameters
\* list, every parameter of the list is read by some step, and the names in
\* the list are pairwise distinct.
C27_ParametersDeclaredAndUsed ==
    nb_pc # "new" =>
        /\ UsedParameters(pipeline) \subseteq ParameterNames(pipeline)
        /\ ParameterNames(pipeline) \subseteq UsedParameters(pipeline)
        /\ \A i, j \in 1 .. Len(pipeline.parameters) :
             pipeline.parameters[i].name = pipeline.parameters[j].name => i = j
        /\ exec_status # "none" => UsedParameters(pipe_def) \subseteq DOMAIN exec_params

C27_Witness ==
    /\ nb_pc = "started"
    /\ Cardinality(UsedParameters(pipeline)) = 20
    /\ Len(pipeline.parameters) = 20
    /\ ParamRef("model_approval_status") \in ReadsOf("RegisterModel")

\* What each operation of the flow leaves behind.
Upserted     == pipe_def # NoPipeline
ExecutionStarted == exec_status # "none"
WaitReturned == exec_status \in {"Succeeded", "Failed"} /\ nb_pc # "started"
ArnRead      == model_package_arn # ""
ApprovedByFlow ==
    \E p \in PackagesWithArn(model_package_arn) :
        p.approval_status = "Approved" /\ p.registered_as # "Approved"
DeployedByFlow == endpoint_name # ""
Predicted    == predict_calls # <<>>
EndpointDeleted == nb_pc = "done"

FlowEndpoints == { e \in endpoints : FromPackage(e) }

C23_OperationOrder ==
    /\ ExecutionStarted => Upserted
    /\ WaitReturned => ExecutionStarted
    /\ ArnRead => WaitReturned /\ exec_status = "Succeeded"
    /\ ApprovedByFlow => ArnRead
    /\ DeployedByFlow => ApprovedByFlow
    /\ Predicted => DeployedByFlow
    /\ EndpointDeleted => Predicted
    /\ FlowEndpoints # {} => DeployedByFlow /\ ~EndpointDeleted
    /\ EndpointDeleted => FlowEndpoints = {} /\ EndpointsNamed(endpoint_name) = {}

C23_InvokedWhileInService ==
    predict_calls' # predict_calls =>
        /\ predict_calls' = Append(predict_calls, endpoint_name)
        /\ EndpointsNamed(endpoint_name) # {}
        /\ EndpointsNamed(endpoint_name) \subseteq FlowEndpoints

\* C23: the operations of the module 8 flow leave their effects in this
\* order: upsert, start, wait, read of the registered package's ARN,
\* approval, deployment, prediction, deletion of the endpoint; the endpoint is
\* invoked only while it is in service, between its deployment and its
\* deletion, and after delete_endpoint no endpoint the flow created remains.
C23_FlowOrder ==
    /\ []C23_OperationOrder
    /\ [][C23_InvokedWhileInService]_vars

C23_Witness ==
    /\ EndpointDeleted
    /\ Len(predict_calls) = 1
    /\ predict_calls[1] = EndpointNameAt(1700000001)
    /\ endpoints = {}
    /\ ApprovedByFlow

RegisterSteps == { n \in StepNames(pipe_def) : StartsWithRegisterModel(n) }

StatusChanged == { p \in registry : p.approval_status # p.registered_as }

PipelineJob == ProcessingStepJob(exec_params)

DefaultParameters ==
    \A n \in DOMAIN exec_params : exec_params[n] = ParameterNamed(pipe_def, n).default_value

\* Module 3 has asked for its processing job, and an execution started with
\* the default parameters in the same account and region has started its
\* Processing step.
BothJobsAsked ==
    /\ processing_job # NoJob
    /\ exec_status # "none"
    /\ step_attempts["Processing"] > 0
    /\ DefaultParameters
    /\ s3_bucket_name = bucket_name

OutputNames == {"train_data", "val_data", "test_data", "model"}
OutputNamed(job, name) ==
    job.outputs[CHOOSE i \in 1 .. Len(job.outputs) : job.outputs[i].output_name = name]

\* The two jobs agree on everything but the S3 destinations of the outputs.
SameJobButDestinations(j, k) ==
    /\ j.script = k.script
    /\ j.script = <<"03_feature_engineering", "source_dir", "preprocessor.py">>
    /\ j.framework_version = k.framework_version
    /\ j.instance_type = k.instance_type
    /\ j.instance_count = k.instance_count
    /\ j.arguments = k.arguments
    /\ j.arguments = <<"--train-test-split-ratio", "0.2">>
    /\ j.inputs = k.inputs
    /\ Len(j.inputs) = 1
    /\ j.inputs[1].input_name = "raw_data"
    /\ Len(j.outputs) = 4
    /\ Len(k.outputs) = 4
    /\ \A i \in 1 .. 4 :
         /\ j.outputs[i].output_name = k.outputs[i].output_name
         /\ j.outputs[i].source = k.outputs[i].source
    /\ { j.outputs[i].output_name : i \in 1 .. 4 } = OutputNames

\* The claim as stated: the two jobs agree on the destination of every output
\* as well.
C22_SameProcessingJob ==
    BothJobsAsked =>
        /\ SameJobButDestinations(processing_job.request, PipelineJob)
        /\ \A o \in OutputNames :
             OutputNamed(processing_job.request, o).destination
                 = OutputNamed(PipelineJob, o).destination

\* C22: with default parameters the Processing step of the pipeline asks for
\* the processing job of module 3 (same script, framework version, instance
\* type and count, split-ratio argument, input name and source, output names
\* and container paths, and the same S3 destination for 'train_data',
\* 'val_data' and 'test_data'), except that the 'model' output goes to
\* .../output/sklearn/ in module 3 and to .../output/sklearn/model.tar.gz in
\* the pipeline.
C22_SameJobButModelDestination ==
    BothJobsAsked =>
        /\ SameJobButDestinations(processing_job.request, PipelineJob)
        /\ \A o \in {"train_data", "val_data", "test_data"} :
             OutputNamed(processing_job.request, o).destination
                 = OutputNamed(PipelineJob, o).destination
        /\ OutputNamed(processing_job.request, "model").destination
             = "s3://" \o s3_bucket_name \o "/end-to-end-ml/output/sklearn/"
        /\ OutputNamed(PipelineJob, "model").destination
             = "s3://" \o bucket_name \o "/end-to-end-ml/output/sklearn/model.tar.gz"

C22_Witness ==
    /\ BothJobsAsked
    /\ processing_job.status = "Completed"
    /\ step_status["Processing"] = "Succeeded"

RawDataLocation == "s3://" \o s3_bucket_name \o "/end-to-end-ml/data/raw/"

\* C29: when module 3 asks for its processing job the raw dataset is already
\* in S3; the job's 'raw_data' input is the location it was uploaded to (the
\* session's bucket, key prefix end-to-end-ml/data/raw) and the job reads the
\* uploaded file; what the notebook downloads afterwards, once the job has
\* completed, lies under the destination of the job's 'val_data' output.
C29_UploadProcessDownload ==
    /\ processing_job # NoJob =>
         /\ (RawDataLocation \o raw_data_file_name) \in s3_objects
         /\ processing_job.request.inputs[1].input_name = "raw_data"
         /\ processing_job.request.inputs[1].source = RawDataLocation
         /\ processing_job.read = {RawDataLocation \o raw_data_file_name}
    /\ m3_pc = "done" =>
         /\ processing_job.status = "Completed"
         /\ \A o \in downloaded :
              o = OutputNamed(processing_job.request, "val_data").destination
                      \o "val_features.csv"

C29_Witness ==
    /\ m3_pc = "done"
    /\ downloaded # {}
    /\ processing_job.read # {}

PipelineRuns ==
    { r \in runs : \E t \in Times : r.run_name = "pipeline-" \o strftime("%H-%M-%S", t) }
NameStored == "experiment_name" \in DOMAIN stored

C30_NameChosenOnce == experiment_name # Undefined => experiment_name' = experiment_name

C30_RunUsesStoredName ==
    /\ NameStored =>
         /\ m3_pc \notin {"new", "session", "uploaded", "named"}
         /\ stored["experiment_name"] = experiment_name
         /\ \E t \in Times :
              experiment_name = "ml-end-to-end-" \o strftime("%Y-%m-%d-%H-%M-%S", t)
    /\ (exec_status # "none" \/ PipelineRuns # {}) => NameStored
    /\ \A r \in PipelineRuns : r.experiment_name = stored["experiment_name"]
    /\ exec_status # "none" => PipelineRuns # {}

\* C30: module 3 names the experiment once and stores the name; an execution
\* of the pipeline is started by module 8 only when the name has been stored,
\* and the run it is started in bears exactly the stored name.
C30_ExperimentNameShared ==
    /\ []C30_RunUsesStoredName
    /\ [][C30_NameChosenOnce]_vars

C30_Witness ==
    /\ exec_status = "Executing"
    /\ PipelineRuns # {}
    /\ m3_pc = "stored"
    /\ \A r \in runs : r.experiment_name = "ml-end-to-end-2023-11-14-22-13-21"

====
